---- MODULE Spec2Model ----
(***************************************************************************)
(* NightWatcher healing pipeline: processFailure (fix-loop orchestrator)   *)
(* driving the SQLite store of db/client.ts.                               *)
(*                                                                         *)
(* One process per invocation of processFailure.  JavaScript runs one      *)
(* synchronous section at a time: `cur` is the invocation that holds the   *)
(* thread (0 when every invocation is suspended at an await).  A           *)
(* synchronous section is cut into one step per store write, so that every *)
(* persisted status is an observable state.                                *)
(*                                                                         *)
(* The components the pipeline calls are specified on their own, each with *)
(* its own specification over one variable: the sandbox (SandboxSpec),     *)
(* applyFix / revertFix (PatchSpec), handleWebhook (WebhookSpec) and       *)
(* truncateLog (TruncSpec).                                                *)
(***************************************************************************)
EXTENDS Integers, Sequences, FiniteSets, TLC

\* ---------------------------------------------------------------- bounds
NumKeys == 2            \* distinct (run_id, repo) pairs that events carry
MaxRuns == 2            \* invocations of processFailure over the whole behaviour
MaxInFlight == 2        \* invocations of processFailure in flight at once
MaxLogs == 1            \* job logs in a downloaded archive

Keys  == 1..NumKeys
Procs == 1..MaxInFlight

\* ------------------------------------------------------- program constants
MAX_FIX_ATTEMPTS == 3
\* analysis.confidence < 0.3, confidences in hundredths
ConfidenceGate == 30
\* confidences an analysis can carry: just below the gate, exactly at it
ConfValues == {29, 30}

NULL == "NULL"
NoAnalysis == -1        \* result.analysis = {} (error_type undefined)

NoLogsMsg         == "No logs available for this workflow run"
NoFailingJobMsg   == "Could not identify failing job in logs"
LowConfidenceMsg  == "Low confidence analysis - escalating to human"
ReproFailedMsg    == "Reproduction failed: <error>"
NotReproducedMsg  == "Failure did not reproduce - tests passed in sandbox"
ExhaustedMsg      == "Failed to fix after 3 attempts"
ExceptionMsg      == "<error.message>"

TerminalStatuses == {"fixed", "escalated", "failed", "not_reproduced"}
TransientStatuses ==
  {"pending", "fetching_logs", "analyzing", "reproducing",
   "generating_test", "fixing", "creating_pr"}
Statuses == TerminalStatuses \cup TransientStatuses

VARIABLES
  db,          \* the store: its three tables, the failures id sequence and the
               \* connection's last insert rowid
  pc,          \* position of each invocation of processFailure
  cur,         \* invocation running a synchronous section, 0 if none
  key,         \* (run_id, repo) of the payload of each invocation
  failureId,   \* const failureId = createFailure(...)
  result,      \* the HealingResult under construction
  runNo,       \* which invocation (1, 2, ...) occupies the slot
  started,     \* invocations of processFailure so far
  workDir,     \* reproResult.workDir (NoDir = undefined)
  dirs,        \* directories present under the managed temporary prefix
  attempt,     \* loop variable of the fix loop
  fixAttempts, \* local FixAttempt[]
  fixSucceeded,
  requests,    \* patches requested from generateFix by each invocation
  wrote,       \* statuses each invocation has asked the store to write
  localize,    \* one call of findFailingJobLog
  janitor,     \* one sweep of runCleanup (sandbox cleanup)
  workdirs,    \* the workspaces of concurrent runs (createWorkDir)
  demux,       \* the data handler of one exec's output stream (docker.ts)
  sandbox,     \* one call of reproduceFailure / runTestsInWorkDir and the
               \* container and exec it drives (sandbox/runner.ts, docker.ts)
  patch,       \* one file of the workspace under applyFix / revertFix
  webhook,     \* one request in handleWebhook
  trunc        \* one call of truncateLog

pipelineVars == <<db, pc, cur, key, failureId, result, runNo, started, workDir,
                  dirs, attempt, fixAttempts, fixSucceeded, requests, wrote>>

\* the components checked on their own, at rest while the pipeline runs
auxVars == <<demux, workdirs, janitor, localize, sandbox, patch, webhook, trunc>>

vars == <<pipelineVars, auxVars>>

\* ------------------------------------------------------------ the store

\* INSERT ... ON CONFLICT(run_id, repo) DO UPDATE SET status = 'pending'.
\* failures.id is AUTOINCREMENT: every execution of the statement takes the
\* next value of the table's sequence, also when it ends in the conflict
\* update.  An insert records its rowid as the connection's last insert
\* rowid; the conflict-update path inserts nothing and leaves the
\* connection's last insert rowid as it was.
RowOfKey(d, k) == {i \in DOMAIN d.failures : d.failures[i].key = k}

NewFailureRow(k) ==
  [key |-> k, status |-> "pending", error |-> NULL, confidence |-> NoAnalysis,
   pr_url |-> NULL, issue_url |-> NULL, completed_at |-> FALSE]

createFailure(d, k) ==
  IF RowOfKey(d, k) = {}
  THEN [d EXCEPT !.failures = @ @@ (d.failureSeq + 1 :> NewFailureRow(k)),
                 !.failureSeq = @ + 1,
                 !.lastInsertRowid = d.failureSeq + 1]
  ELSE LET i == CHOOSE j \in RowOfKey(d, k) : TRUE
       IN [d EXCEPT !.failures[i].status = "pending",
                    !.failureSeq = @ + 1]

\* const id = result.lastInsertRowid
createFailureId(d, k) == createFailure(d, k).lastInsertRowid

\* UPDATE failures SET status = ?, error = ?, completed_at = CASE ... WHERE id = ?
updateFailureStatus(d, id, status, error) ==
  IF id \in DOMAIN d.failures
  THEN [d EXCEPT !.failures[id].status = status,
                 !.failures[id].error = error,
                 !.failures[id].completed_at =
                    IF status \in {"fixed", "escalated", "failed"} THEN TRUE ELSE @]
  ELSE d

\* UPDATE failures SET <analysis columns>, status = 'analyzing' WHERE id = ?
updateFailureAnalysis(d, id, c) ==
  IF id \in DOMAIN d.failures
  THEN [d EXCEPT !.failures[id].confidence = c,
                 !.failures[id].status = "analyzing"]
  ELSE d

\* UPDATE failures SET pr_url = COALESCE(?, pr_url), ... WHERE id = ?
updateFailureOutcome(d, id, prUrl, issueUrl) ==
  IF id \in DOMAIN d.failures
  THEN [d EXCEPT !.failures[id].pr_url = IF prUrl # NULL THEN prUrl ELSE @,
                 !.failures[id].issue_url = IF issueUrl # NULL THEN issueUrl ELSE @,
                 !.failures[id].status =
                    IF prUrl # NULL THEN "fixed"
                    ELSE IF issueUrl # NULL THEN "escalated" ELSE @,
                 !.failures[id].completed_at = TRUE]
  ELSE d

\* INSERT INTO fix_attempts (...)
createFixAttempt(d, id, a) ==
  [d EXCEPT !.fix_attempts =
               Append(@, [failure_id |-> id, attempt_number |-> a.attempt_number,
                          test_result |-> a.test_result, synthetic |-> a.synthetic,
                          error_output |-> a.error_output]),
            !.lastInsertRowid = Len(d.fix_attempts) + 1]

\* INSERT INTO generated_tests (...)
createGeneratedTest(d, id) ==
  [d EXCEPT !.generated_tests = Append(@, [failure_id |-> id]),
            !.lastInsertRowid = Len(d.generated_tests) + 1]

RECURSIVE saveAttempts(_, _, _)
saveAttempts(d, id, as) ==
  IF as = <<>> THEN d
  ELSE saveAttempts(createFixAttempt(d, id, Head(as)), id, Tail(as))

saveHealingResult(d, r) ==
  LET d0  == IF RowOfKey(d, r.key) = {} THEN createFailure(d, r.key) ELSE d
      id  == IF RowOfKey(d, r.key) = {} THEN d0.lastInsertRowid
             ELSE CHOOSE j \in RowOfKey(d, r.key) : TRUE
      d1  == IF r.analysis # NoAnalysis THEN updateFailureAnalysis(d0, id, r.analysis) ELSE d0
      d2  == saveAttempts(d1, id, r.fix_attempts)
      d3  == IF r.generated_test THEN createGeneratedTest(d2, id) ELSE d2
  IN IF r.pr_url # NULL \/ r.issue_url # NULL
     THEN updateFailureOutcome(d3, id, r.pr_url, r.issue_url)
     ELSE IF r.error # NULL THEN updateFailureStatus(d3, id, "failed", r.error)
     ELSE d3

\* ------------------------------------------------------------- the pipeline

\* createWorkDir makes <tmp>/nightwatch/run-<id>-<ts>; the repository is
\* cloned into its subdirectory repo, which is what reproduceFailure returns
\* as workDir.  Directories are named by the invocation that made them; how
\* createWorkDir forms the name from the clock is modelled in WorkspaceSpec.
RunDir(n)  == <<n, "run">>
RepoDir(n) == <<n, "run/repo">>
NoDir      == <<0, "none">>

\* the test file of the clone once insertTestIntoFile has written the
\* generated test into it
InsertedTest(n) == <<n, "run/repo/tests/<target_file> with the generated test">>

NewResult(k) ==
  [success |-> FALSE, key |-> k, analysis |-> NoAnalysis, fix_attempts |-> <<>>,
   generated_test |-> FALSE, pr_url |-> NULL, issue_url |-> NULL, error |-> NULL]

\* no call in progress in a component
AtRest == [pc |-> "off"]

PipelineInit ==
  /\ db = [failures |-> <<>>, failureSeq |-> 0, fix_attempts |-> <<>>,
           generated_tests |-> <<>>, lastInsertRowid |-> 0]
  /\ pc = [p \in Procs |-> "idle"]
  /\ cur = 0
  /\ key = [p \in Procs |-> 0]
  /\ failureId = [p \in Procs |-> 0]
  /\ result = [p \in Procs |-> NewResult(0)]
  /\ runNo = [p \in Procs |-> 0]
  /\ started = 0
  /\ workDir = [p \in Procs |-> NoDir]
  /\ dirs = {}
  /\ attempt = [p \in Procs |-> 0]
  /\ fixAttempts = [p \in Procs |-> <<>>]
  /\ fixSucceeded = [p \in Procs |-> FALSE]
  /\ requests = [p \in Procs |-> 0]
  /\ wrote = [p \in Procs |-> {}]

Init ==
  /\ PipelineInit
  /\ demux = AtRest
  /\ workdirs = AtRest
  /\ janitor = AtRest
  /\ localize = AtRest
  /\ sandbox = AtRest
  /\ patch = AtRest
  /\ webhook = AtRest
  /\ trunc = AtRest

\* positions of a slot with no invocation in flight: never used, returned,
\* or rejected (the exception left processFailure)
Ended == {"idle", "done", "threw"}

\* processFailure up to the try block: the result object and createFailure.
\* A slot whose invocation has ended is free for the next event.
Start(p, k) ==
  /\ cur = 0
  /\ pc[p] \in Ended
  /\ \A q \in Procs : q < p => pc[q] \notin Ended
  /\ started < MaxRuns
  /\ started' = started + 1
  /\ runNo' = [runNo EXCEPT ![p] = started + 1]
  /\ key' = [key EXCEPT ![p] = k]
  /\ result' = [result EXCEPT ![p] = NewResult(k)]
  /\ db' = createFailure(db, k)
  /\ failureId' = [failureId EXCEPT ![p] = createFailureId(db, k)]
  /\ workDir' = [workDir EXCEPT ![p] = NoDir]
  /\ attempt' = [attempt EXCEPT ![p] = 0]
  /\ fixAttempts' = [fixAttempts EXCEPT ![p] = <<>>]
  /\ fixSucceeded' = [fixSucceeded EXCEPT ![p] = FALSE]
  /\ requests' = [requests EXCEPT ![p] = 0]
  /\ wrote' = [wrote EXCEPT ![p] = {}]
  /\ pc' = [pc EXCEPT ![p] = "set_fetching_logs"]
  /\ cur' = p
  /\ UNCHANGED dirs
  /\ UNCHANGED auxVars

\* createFailure throws (the statement fails: database locked, disk full,
\* I/O error).  The call is before the try block, so the exception leaves
\* processFailure: the promise rejects and nothing was written.
StartThrows(p, k) ==
  /\ cur = 0
  /\ pc[p] \in Ended
  /\ \A q \in Procs : q < p => pc[q] \notin Ended
  /\ started < MaxRuns
  /\ started' = started + 1
  /\ runNo' = [runNo EXCEPT ![p] = started + 1]
  /\ key' = [key EXCEPT ![p] = k]
  /\ result' = [result EXCEPT ![p] = NewResult(k)]
  /\ failureId' = [failureId EXCEPT ![p] = 0]
  /\ workDir' = [workDir EXCEPT ![p] = NoDir]
  /\ attempt' = [attempt EXCEPT ![p] = 0]
  /\ fixAttempts' = [fixAttempts EXCEPT ![p] = <<>>]
  /\ fixSucceeded' = [fixSucceeded EXCEPT ![p] = FALSE]
  /\ requests' = [requests EXCEPT ![p] = 0]
  /\ wrote' = [wrote EXCEPT ![p] = {}]
  /\ pc' = [pc EXCEPT ![p] = "threw"]
  /\ UNCHANGED <<db, cur, dirs>>
  /\ UNCHANGED auxVars

\* The server process restarts between pipelines: initDatabase opens a new
\* connection on the same database file.  The tables persist; the new
\* connection has made no insert, so its last insert rowid is 0.
Restart ==
  /\ \A p \in Procs : pc[p] \in Ended
  /\ db.lastInsertRowid # 0
  /\ db' = [db EXCEPT !.lastInsertRowid = 0]
  /\ pc' = [p \in Procs |-> "idle"]
  /\ key' = [p \in Procs |-> 0]
  /\ failureId' = [p \in Procs |-> 0]
  /\ result' = [p \in Procs |-> NewResult(0)]
  /\ runNo' = [p \in Procs |-> 0]
  /\ workDir' = [p \in Procs |-> NoDir]
  /\ attempt' = [p \in Procs |-> 0]
  /\ fixAttempts' = [p \in Procs |-> <<>>]
  /\ fixSucceeded' = [p \in Procs |-> FALSE]
  /\ requests' = [p \in Procs |-> 0]
  /\ wrote' = [p \in Procs |-> {}]
  /\ UNCHANGED <<cur, started, dirs>>
  /\ UNCHANGED auxVars

\* updateFailureStatus(failureId, status, error) called by invocation p
WriteStatus(p, status, error) ==
  /\ db' = updateFailureStatus(db, failureId[p], status, error)
  /\ wrote' = [wrote EXCEPT ![p] = @ \cup {status}]

\* return result (the async function completes, the thread is released)
Return(p) ==
  /\ pc' = [pc EXCEPT ![p] = "done"]
  /\ cur' = 0

\* updateFailureStatus(failureId, 'fetching_logs'); await fetchWorkflowLogs(...)
SetFetchingLogs(p) ==
  /\ cur = p
  /\ pc[p] = "set_fetching_logs"
  /\ WriteStatus(p, "fetching_logs", NULL)
  /\ pc' = [pc EXCEPT ![p] = "await_logs"]
  /\ cur' = 0
  /\ UNCHANGED <<key, failureId, result, runNo, started, workDir, dirs, attempt,
                 fixAttempts, fixSucceeded, requests>>
  /\ UNCHANGED auxVars

\* texts of at most n characters (or words) over an alphabet
Strs(alphabet, n) == UNION {[1..k -> alphabet] : k \in 0..n}

\* A job log is its job name and its content; a content is a sequence of
\* words.  The words a log is made of here: one no pattern matches, and
\* spellings of the error indicators.
Words == {"ok", "failed", "FAILED", "Traceback", "Error:"}

\* errorPatterns, as written: source and the i flag
errorPatterns ==
  <<[source |-> "error:", ignoreCase |-> TRUE],
    [source |-> "failed", ignoreCase |-> TRUE],
    [source |-> "exception", ignoreCase |-> TRUE],
    [source |-> "traceback", ignoreCase |-> TRUE],
    [source |-> "FAILED", ignoreCase |-> FALSE],
    [source |-> "AssertionError", ignoreCase |-> FALSE],
    [source |-> "TypeError", ignoreCase |-> FALSE],
    [source |-> "ImportError", ignoreCase |-> FALSE],
    [source |-> "ModuleNotFoundError", ignoreCase |-> FALSE]>>

\* new RegExp(pattern, 'g'): the source of pattern with the flags given,
\* which replace the flags pattern had
GlobalRegExp(pattern) == [source |-> pattern.source, ignoreCase |-> FALSE]

\* the words in lower case
LowerCase(w) ==
  CASE w = "FAILED" -> "failed"
    [] w = "Traceback" -> "traceback"
    [] w = "Error:" -> "error:"
    [] OTHER -> w

\* the matches of a regular expression in one word: each word here holds
\* at most one occurrence of a source, and only as the whole word
MatchesIn(re, w) ==
  IF re.source = w \/ (re.ignoreCase /\ LowerCase(re.source) = LowerCase(w))
  THEN 1 ELSE 0

RECURSIVE MatchCount(_, _)
MatchCount(re, content) ==
  IF content = <<>> THEN 0
  ELSE MatchesIn(re, Head(content)) + MatchCount(re, Tail(content))

\* score += log.content.match(new RegExp(pattern, 'g')).length, per pattern
RECURSIVE ScoreFrom(_, _)
ScoreFrom(content, i) ==
  IF i > Len(errorPatterns) THEN 0
  ELSE MatchCount(GlobalRegExp(errorPatterns[i]), content) + ScoreFrom(content, i + 1)

Score(content) == ScoreFrom(content, 1)

\* Array.prototype.sort with (a, b) => b.score - a.score: descending, and
\* stable, so x goes behind every element that does not score less
RECURSIVE InsertByScore(_, _)
InsertByScore(sorted, x) ==
  IF sorted = <<>> THEN <<x>>
  ELSE IF Head(sorted).score >= x.score
       THEN <<Head(sorted)>> \o InsertByScore(Tail(sorted), x)
       ELSE <<x>> \o sorted

RECURSIVE SortByScore(_)
SortByScore(scored) ==
  IF scored = <<>> THEN <<>>
  ELSE InsertByScore(SortByScore(SubSeq(scored, 1, Len(scored) - 1)),
                     scored[Len(scored)])

\* logs.map(l => `=== ${l.jobName} ===\n${l.content}`).join('\n\n')
RECURSIVE Concatenated(_)
Concatenated(logs) ==
  IF logs = <<>> THEN <<>>
  ELSE <<"=== ", Head(logs).jobName, " ===\n">> \o Head(logs).content
         \o (IF Len(logs) > 1 THEN <<"\n\n">> ELSE <<>>)
         \o Concatenated(Tail(logs))

\* a value of type string | null: null, or a text
NullString == [isNull |-> TRUE, text |-> <<>>]
String(t) == [isNull |-> FALSE, text |-> t]

\* !v for a string | null: null and the empty string are falsy
Falsy(v) == v.isNull \/ v.text = <<>>

\* findFailingJobLog: null for an empty list; the content of the first log
\* of the sorted list when its score is positive; otherwise all logs
\* concatenated, each under a header
findFailingJobLog(logs) ==
  IF Len(logs) = 0 THEN NullString
  ELSE LET scored == [i \in DOMAIN logs |->
                        [log |-> logs[i], score |-> Score(logs[i].content)]]
           best == SortByScore(scored)[1]
       IN IF best.score > 0 THEN String(best.log.content)
          ELSE String(Concatenated(logs))

\* extractLogsFromZip aggregates the entries by job: job names are distinct
JobNames == <<"job1", "job2", "job3", "job4", "job5">>

\* the job logs with contents cs, named in archive order
NamedLogs(cs) == [i \in DOMAIN cs |-> [jobName |-> JobNames[i], content |-> cs[i]]]

\* archives the pipeline downloads: up to MaxLogs jobs of at most one word
LogSets ==
  {NamedLogs(cs) : cs \in UNION {[1..n -> Strs({"ok", "failed"}, 1)] : n \in 0..MaxLogs}}

\* fetchWorkflowLogs resolves with the job logs (an expired archive gives [])
LogsFetched(p, logs) ==
  /\ cur = 0
  /\ pc[p] = "await_logs"
  /\ IF Len(logs) = 0
     THEN /\ result' = [result EXCEPT ![p].error = NoLogsMsg]
          /\ Return(p)
     ELSE IF Falsy(findFailingJobLog(logs))
     THEN /\ result' = [result EXCEPT ![p].error = NoFailingJobMsg]
          /\ Return(p)
     ELSE /\ pc' = [pc EXCEPT ![p] = "set_analyzing"]
          /\ cur' = p
          /\ UNCHANGED result
  /\ UNCHANGED <<db, key, failureId, runNo, started, workDir, dirs, attempt,
                 fixAttempts, fixSucceeded, requests, wrote>>
  /\ UNCHANGED auxVars

\* an awaited call rejects inside the outer try: control goes to the catch
AwaitThrows(p) ==
  /\ cur = 0
  /\ pc[p] \in {"await_logs", "await_analysis", "await_test_gen"}
  /\ pc' = [pc EXCEPT ![p] = "catch"]
  /\ cur' = p
  /\ UNCHANGED <<db, key, failureId, result, runNo, started, workDir, dirs, attempt,
                 fixAttempts, fixSucceeded, requests, wrote>>
  /\ UNCHANGED auxVars

\* updateFailureStatus(failureId, 'analyzing'); await analyzeFailureLogs(...)
SetAnalyzing(p) ==
  /\ cur = p
  /\ pc[p] = "set_analyzing"
  /\ WriteStatus(p, "analyzing", NULL)
  /\ pc' = [pc EXCEPT ![p] = "await_analysis"]
  /\ cur' = 0
  /\ UNCHANGED <<key, failureId, result, runNo, started, workDir, dirs, attempt,
                 fixAttempts, fixSucceeded, requests>>
  /\ UNCHANGED auxVars

\* analysis = await analyzeFailureLogs(...); result.analysis = analysis
Analyzed(p, c) ==
  /\ cur = 0
  /\ pc[p] = "await_analysis"
  /\ result' = [result EXCEPT ![p].analysis = c]
  /\ pc' = [pc EXCEPT ![p] = "save_analysis"]
  /\ cur' = p
  /\ UNCHANGED <<db, key, failureId, runNo, started, workDir, dirs, attempt,
                 fixAttempts, fixSucceeded, requests, wrote>>
  /\ UNCHANGED auxVars

\* the comparison of the gate written the wrong way round
LowConfidenceInverted(c) == c > ConfidenceGate

\* if (analysis.confidence < 0.3)
LowConfidence(c) == c < ConfidenceGate

\* updateFailureAnalysis(failureId, analysis); the confidence gate
SaveAnalysis(p) ==
  /\ cur = p
  /\ pc[p] = "save_analysis"
  /\ db' = updateFailureAnalysis(db, failureId[p], result[p].analysis)
  /\ wrote' = [wrote EXCEPT ![p] = @ \cup {"analyzing"}]
  /\ IF LowConfidence(result[p].analysis)
     THEN /\ result' = [result EXCEPT ![p].error = LowConfidenceMsg]
          /\ Return(p)
     ELSE /\ pc' = [pc EXCEPT ![p] = "set_reproducing"]
          /\ UNCHANGED <<result, cur>>
  /\ UNCHANGED <<key, failureId, runNo, started, workDir, dirs, attempt,
                 fixAttempts, fixSucceeded, requests>>
  /\ UNCHANGED auxVars

\* updateFailureStatus(failureId, 'reproducing'); await reproduceFailure(...)
SetReproducing(p) ==
  /\ cur = p
  /\ pc[p] = "set_reproducing"
  /\ WriteStatus(p, "reproducing", NULL)
  /\ pc' = [pc EXCEPT ![p] = "await_repro"]
  /\ cur' = 0
  /\ UNCHANGED <<key, failureId, result, runNo, started, workDir, dirs, attempt,
                 fixAttempts, fixSucceeded, requests>>
  /\ UNCHANGED auxVars

\* reproduceFailure never rejects.  outcome:
\*   "no_docker"  success = false before any directory is made
\*   "error"      success = false from the catch, after createWorkDir and
\*                cloneRepo's mkdirSync; neither directory is removed
\*   "passed"     success, test command exit code 0
\*   "reproduced" success, test command exit code # 0
ReproOutcomes == {"no_docker", "error", "passed", "reproduced"}

Reproduced(p, outcome) ==
  /\ cur = 0
  /\ pc[p] = "await_repro"
  /\ dirs' = IF outcome = "no_docker" THEN dirs
             ELSE dirs \cup {RunDir(runNo[p]), RepoDir(runNo[p])}
  /\ workDir' = [workDir EXCEPT ![p] =
                   IF outcome \in {"passed", "reproduced"} THEN RepoDir(runNo[p])
                   ELSE NoDir]
  /\ result' = [result EXCEPT ![p].error =
                   CASE outcome \in {"no_docker", "error"} -> ReproFailedMsg
                     [] outcome = "passed" -> NotReproducedMsg
                     [] OTHER -> @]
  /\ pc' = [pc EXCEPT ![p] =
               CASE outcome \in {"no_docker", "error"} -> "set_failed"
                 [] outcome = "passed" -> "set_not_reproduced"
                 [] OTHER -> "set_generating_test"]
  /\ cur' = p
  /\ UNCHANGED <<db, key, failureId, runNo, started, attempt,
                 fixAttempts, fixSucceeded, requests, wrote>>
  /\ UNCHANGED auxVars

\* updateFailureStatus(failureId, 'failed', result.error); return result
SetReproFailed(p) ==
  /\ cur = p
  /\ pc[p] = "set_failed"
  /\ WriteStatus(p, "failed", result[p].error)
  /\ Return(p)
  /\ UNCHANGED <<key, failureId, result, runNo, started, workDir, dirs, attempt,
                 fixAttempts, fixSucceeded, requests>>
  /\ UNCHANGED auxVars

\* fs.rmSync(workDir, { recursive: true, force: true }): the directory and
\* everything beneath it
cleanupWorkDir(ds, w) ==
  ds \ {d \in ds : d = w \/ (w[2] = "run" /\ d[1] = w[1])}

\* updateFailureStatus(failureId, 'not_reproduced'); cleanupWorkDir; return
SetNotReproduced(p) ==
  /\ cur = p
  /\ pc[p] = "set_not_reproduced"
  /\ WriteStatus(p, "not_reproduced", NULL)
  /\ dirs' = IF workDir[p] # NoDir THEN cleanupWorkDir(dirs, workDir[p]) ELSE dirs
  /\ Return(p)
  /\ UNCHANGED <<key, failureId, result, runNo, started, workDir, attempt,
                 fixAttempts, fixSucceeded, requests>>
  /\ UNCHANGED auxVars

\* updateFailureStatus(failureId, 'generating_test'); readSourceFile (throws
\* when the analysed file is absent); await generateRegressionTest(...)
SetGeneratingTest(p, sourceFound) ==
  /\ cur = p
  /\ pc[p] = "set_generating_test"
  /\ WriteStatus(p, "generating_test", NULL)
  /\ IF sourceFound
     THEN /\ pc' = [pc EXCEPT ![p] = "await_test_gen"]
          /\ cur' = 0
     ELSE /\ pc' = [pc EXCEPT ![p] = "catch_local"]
          /\ UNCHANGED cur
  /\ UNCHANGED <<key, failureId, result, runNo, started, workDir, dirs, attempt,
                 fixAttempts, fixSucceeded, requests>>
  /\ UNCHANGED auxVars

\* result.generated_test = await generateRegressionTest(...); the call of
\* insertTestIntoFile that follows is commented out: the workspace is left
\* as it was cloned
TestGenerated(p) ==
  /\ cur = 0
  /\ pc[p] = "await_test_gen"
  /\ result' = [result EXCEPT ![p].generated_test = TRUE]
  /\ pc' = [pc EXCEPT ![p] = "set_fixing"]
  /\ cur' = p
  /\ UNCHANGED <<db, key, failureId, runNo, started, workDir, dirs, attempt,
                 fixAttempts, fixSucceeded, requests, wrote>>
  /\ UNCHANGED auxVars

\* updateFailureStatus(failureId, 'fixing'); fixAttempts = []; attempt = 1
SetFixing(p) ==
  /\ cur = p
  /\ pc[p] = "set_fixing"
  /\ WriteStatus(p, "fixing", NULL)
  /\ fixAttempts' = [fixAttempts EXCEPT ![p] = <<>>]
  /\ fixSucceeded' = [fixSucceeded EXCEPT ![p] = FALSE]
  /\ attempt' = [attempt EXCEPT ![p] = 1]
  /\ pc' = [pc EXCEPT ![p] = "loop"]
  /\ UNCHANGED <<cur, key, failureId, result, runNo, started, workDir, dirs, requests>>
  /\ UNCHANGED auxVars

FixAttempt(n, verdict, syn, out) ==
  [attempt_number |-> n, test_result |-> verdict, synthetic |-> syn,
   error_output |-> out]

\* the catch block's attempt without its error_output
SyntheticAttemptNoOutput(n) == FixAttempt(n, "fail", TRUE, NULL)

\* the attempt pushed by the loop's catch block: error_output is the message
\* of the exception
SyntheticAttempt(n) == FixAttempt(n, "fail", TRUE, ExceptionMsg)

\* an error_output the pipeline sets itself: the fixed message 'Failed to
\* apply fix - original code not found', or the stderr of the test run
ErrorText == "<text>"

\* the attempt pushed when applyFix returns false
NotAppliedAttempt(n) == FixAttempt(n, "fail", FALSE, ErrorText)

\* test_result: testResult.exitCode === 0 ? 'pass' : 'fail'
Verdict(exitCode) == IF exitCode = 0 THEN "pass" ELSE "fail"

\* the attempt pushed after the tests ran: error_output is stderr unless the
\* exit code is 0
TestedAttempt(n, exitCode) ==
  FixAttempt(n, Verdict(exitCode), FALSE, IF exitCode # 0 THEN ErrorText ELSE NULL)

\* for (attempt = 1; attempt <= MAX_FIX_ATTEMPTS; attempt++)
LoopContinues(n) == n <= MAX_FIX_ATTEMPTS

\* loop head: leave the loop, or readSourceCode (throws into the loop's
\* catch when the file is absent) and await generateFix(...)
LoopHead(p, sourceFound) ==
  /\ cur = p
  /\ pc[p] = "loop"
  /\ IF ~LoopContinues(attempt[p])
     THEN /\ pc' = [pc EXCEPT ![p] = "post_loop"]
          /\ UNCHANGED <<cur, fixAttempts, attempt, requests>>
     ELSE IF sourceFound
     THEN /\ pc' = [pc EXCEPT ![p] = "await_fix"]
          /\ requests' = [requests EXCEPT ![p] = @ + 1]
          /\ cur' = 0
          /\ UNCHANGED <<fixAttempts, attempt>>
     ELSE /\ fixAttempts' = [fixAttempts EXCEPT ![p] = Append(@, SyntheticAttempt(attempt[p]))]
          /\ attempt' = [attempt EXCEPT ![p] = @ + 1]
          /\ UNCHANGED <<pc, cur, requests>>
  /\ UNCHANGED <<db, key, failureId, result, runNo, started, workDir, dirs, fixSucceeded, wrote>>
  /\ UNCHANGED auxVars

\* generateFix resolves or rejects; applyFix(workDir, fix)
\*   "throws"       generateFix rejects (no API key, unparseable response)
\*   "not_applied"  applyFix returns false
\*   "applied"      applyFix returns true; await runTestsInWorkDir(workDir)
FixOutcomes == {"throws", "not_applied", "applied"}

FixGenerated(p, outcome) ==
  /\ cur = 0
  /\ pc[p] = "await_fix"
  /\ IF outcome = "applied"
     THEN /\ pc' = [pc EXCEPT ![p] = "await_tests"]
          /\ UNCHANGED <<cur, fixAttempts, attempt>>
     ELSE /\ fixAttempts' = [fixAttempts EXCEPT ![p] =
                Append(@, IF outcome = "throws" THEN SyntheticAttempt(attempt[p])
                          ELSE NotAppliedAttempt(attempt[p]))]
          /\ attempt' = [attempt EXCEPT ![p] = @ + 1]
          /\ pc' = [pc EXCEPT ![p] = "loop"]
          /\ cur' = p
  /\ UNCHANGED <<db, key, failureId, result, runNo, started, workDir, dirs, fixSucceeded,
                 requests, wrote>>
  /\ UNCHANGED auxVars

\* runTestsInWorkDir resolves with an exit code (0, 1, 124 on timeout) or
\* rejects (container creation fails): -1 stands for the rejection
TestExits == {-1, 0, 1}

\* the attempt is pushed; after a failing run revertFix rewrites the file
\* applyFix has just written (taken not to throw) and the loop goes on
TestsRun(p, exitCode) ==
  /\ cur = 0
  /\ pc[p] = "await_tests"
  /\ IF exitCode = -1
     THEN /\ fixAttempts' = [fixAttempts EXCEPT ![p] = Append(@, SyntheticAttempt(attempt[p]))]
          /\ attempt' = [attempt EXCEPT ![p] = @ + 1]
          /\ pc' = [pc EXCEPT ![p] = "loop"]
          /\ UNCHANGED fixSucceeded
     ELSE /\ fixAttempts' = [fixAttempts EXCEPT ![p] =
                Append(@, TestedAttempt(attempt[p], exitCode))]
          /\ IF exitCode = 0
             THEN /\ fixSucceeded' = [fixSucceeded EXCEPT ![p] = TRUE]
                  /\ pc' = [pc EXCEPT ![p] = "post_loop"]
                  /\ UNCHANGED attempt
             ELSE /\ attempt' = [attempt EXCEPT ![p] = @ + 1]
                  /\ pc' = [pc EXCEPT ![p] = "loop"]
                  /\ UNCHANGED fixSucceeded
  /\ cur' = p
  /\ UNCHANGED <<db, key, failureId, result, runNo, started, workDir, dirs, requests, wrote>>
  /\ UNCHANGED auxVars

\* result.fix_attempts = fixAttempts; Step 6: 'creating_pr' or 'escalated'
PostLoop(p) ==
  /\ cur = p
  /\ pc[p] = "post_loop"
  /\ IF fixSucceeded[p]
     THEN /\ WriteStatus(p, "creating_pr", NULL)
          /\ result' = [result EXCEPT ![p].fix_attempts = fixAttempts[p]]
          /\ pc' = [pc EXCEPT ![p] = "set_fixed"]
     ELSE /\ WriteStatus(p, "escalated", NULL)
          /\ result' = [result EXCEPT ![p].fix_attempts = fixAttempts[p],
                                      ![p].error = ExhaustedMsg]
          /\ pc' = [pc EXCEPT ![p] = "save"]
  /\ UNCHANGED <<cur, key, failureId, runNo, started, workDir, dirs, attempt,
                 fixAttempts, fixSucceeded, requests>>
  /\ UNCHANGED auxVars

\* result.success = true; updateFailureStatus(failureId, 'fixed')
SetFixed(p) ==
  /\ cur = p
  /\ pc[p] = "set_fixed"
  /\ result' = [result EXCEPT ![p].success = TRUE]
  /\ WriteStatus(p, "fixed", NULL)
  /\ pc' = [pc EXCEPT ![p] = "save"]
  /\ UNCHANGED <<cur, key, failureId, runNo, started, workDir, dirs, attempt,
                 fixAttempts, fixSucceeded, requests>>
  /\ UNCHANGED auxVars

\* cleanupWorkDir(workDir); saveHealingResult(result); return result
SaveAndReturn(p) ==
  /\ cur = p
  /\ pc[p] = "save"
  /\ dirs' = cleanupWorkDir(dirs, workDir[p])
  /\ db' = saveHealingResult(db, result[p])
  /\ Return(p)
  /\ UNCHANGED <<key, failureId, result, runNo, started, workDir, attempt,
                 fixAttempts, fixSucceeded, requests, wrote>>
  /\ UNCHANGED auxVars

\* the catch block is entered with the rejection of an awaited external call
\* ("catch") or with an exception thrown synchronously by the store or the
\* file system ("catch_local")
CatchPcs == {"catch", "catch_local"}

\* catch (error): result.error = message;
\* updateFailureStatus(failureId, 'failed', errorMessage); return result
Catch(p) ==
  /\ cur = p
  /\ pc[p] \in CatchPcs
  /\ result' = [result EXCEPT ![p].error = ExceptionMsg]
  /\ WriteStatus(p, "failed", ExceptionMsg)
  /\ Return(p)
  /\ UNCHANGED <<key, failureId, runNo, started, workDir, dirs, attempt,
                 fixAttempts, fixSucceeded, requests>>
  /\ UNCHANGED auxVars

\* positions inside the try block whose step begins with a store write
StoreWritePcs ==
  {"set_fetching_logs", "set_analyzing", "save_analysis", "set_reproducing",
   "set_failed", "set_not_reproduced", "set_generating_test", "set_fixing",
   "post_loop", "set_fixed", "save"}

\* a store write inside the try block throws: nothing is written and control
\* goes to the catch.  At "save" cleanupWorkDir(workDir) has already run when
\* saveHealingResult throws.
StoreThrows(p) ==
  /\ cur = p
  /\ pc[p] \in StoreWritePcs
  /\ dirs' = IF pc[p] = "save" THEN cleanupWorkDir(dirs, workDir[p]) ELSE dirs
  /\ pc' = [pc EXCEPT ![p] = "catch_local"]
  /\ UNCHANGED <<db, cur, key, failureId, result, runNo, started, workDir, attempt,
                 fixAttempts, fixSucceeded, requests, wrote>>
  /\ UNCHANGED auxVars

\* updateFailureStatus(failureId, 'failed', errorMessage) in the catch block
\* throws: nothing encloses it, the exception leaves processFailure
CatchThrows(p) ==
  /\ cur = p
  /\ pc[p] \in CatchPcs
  /\ result' = [result EXCEPT ![p].error = ExceptionMsg]
  /\ pc' = [pc EXCEPT ![p] = "threw"]
  /\ cur' = 0
  /\ UNCHANGED <<db, key, failureId, runNo, started, workDir, dirs, attempt,
                 fixAttempts, fixSucceeded, requests, wrote>>
  /\ UNCHANGED auxVars

Next ==
  \/ Restart
  \/ \E p \in Procs :
    \/ \E k \in Keys : Start(p, k)
    \/ \E k \in Keys : StartThrows(p, k)
    \/ SetFetchingLogs(p)
    \/ \E logs \in LogSets : LogsFetched(p, logs)
    \/ AwaitThrows(p)
    \/ SetAnalyzing(p)
    \/ \E c \in ConfValues : Analyzed(p, c)
    \/ SaveAnalysis(p)
    \/ SetReproducing(p)
    \/ \E o \in ReproOutcomes : Reproduced(p, o)
    \/ SetReproFailed(p)
    \/ SetNotReproduced(p)
    \/ \E b \in BOOLEAN : SetGeneratingTest(p, b)
    \/ TestGenerated(p)
    \/ SetFixing(p)
    \/ \E b \in BOOLEAN : LoopHead(p, b)
    \/ \E o \in FixOutcomes : FixGenerated(p, o)
    \/ \E e \in TestExits : TestsRun(p, e)
    \/ PostLoop(p)
    \/ SetFixed(p)
    \/ SaveAndReturn(p)
    \/ Catch(p)
    \/ StoreThrows(p)
    \/ CatchThrows(p)

Spec == Init /\ [][Next]_vars

TypeOK ==
  /\ cur \in Procs \cup {0}
  /\ \A i \in DOMAIN db.failures : db.failures[i].status \in Statuses

\* ------------------------------------------------------------------ claims

\* the failures row stored under key k in store d
RowIn(d, k) == d.failures[CHOOSE i \in RowOfKey(d, k) : TRUE]

\* this step is the return of invocation p
Returns(p) == pc[p] # "done" /\ pc'[p] = "done"

AttemptsOf(d, i) == {j \in DOMAIN d.fix_attempts : d.fix_attempts[j].failure_id = i}
TestsOf(d, i) == {j \in DOMAIN d.generated_tests : d.generated_tests[j].failure_id = i}

\* C1: every invocation of processFailure that returns leaves the persisted
\* status of its failure row in {fixed, escalated, failed, not_reproduced}.
C1_TerminalOnReturn ==
  [][\A p \in Procs :
       Returns(p) => RowIn(db', key[p]).status \in TerminalStatuses]_vars

\* C2: terminal monotonicity.  Within one pipeline run (a single invocation
\* has been started, so no re-ingestion has happened), once a failure row's
\* status is terminal no store write changes any column of that row.
C2_TerminalMonotone ==
  [][started' = 1 =>
       \A i \in DOMAIN db.failures :
          db.failures[i].status \in TerminalStatuses
             => db'.failures[i] = db.failures[i]]_vars

\* the edges of the status state machine; any status may move to failed
Edges ==
  {<<"pending", "fetching_logs">>, <<"fetching_logs", "analyzing">>,
   <<"analyzing", "reproducing">>, <<"analyzing", "escalated">>,
   <<"reproducing", "not_reproduced">>, <<"reproducing", "generating_test">>,
   <<"generating_test", "fixing">>, <<"fixing", "creating_pr">>,
   <<"fixing", "escalated">>, <<"creating_pr", "fixed">>}
     \cup {<<s, "failed">> : s \in Statuses}

\* C3: within one pipeline run every change of a row's persisted status
\* follows an edge of the state machine, and the status is an enumerated value.
C3_StatusFollowsEdges ==
  [][started' = 1 =>
       \A i \in DOMAIN db.failures :
          /\ db'.failures[i].status \in Statuses
          /\ db'.failures[i].status # db.failures[i].status
               => <<db.failures[i].status, db'.failures[i].status>> \in Edges]_vars

SyntheticOf(d, i) == {j \in AttemptsOf(d, i) : d.fix_attempts[j].synthetic}

\* C4: bounded attempts.  The fix_attempts rows stored for a failure number
\* at most MAX_FIX_ATTEMPTS plus its synthetic rows (one per caught
\* exception), and no invocation requests a fourth patch.
C4_BoundedAttempts ==
  /\ \A i \in DOMAIN db.failures :
        Cardinality(AttemptsOf(db, i))
           <= MAX_FIX_ATTEMPTS + Cardinality(SyntheticOf(db, i))
  /\ \A p \in Procs : requests[p] <= MAX_FIX_ATTEMPTS

PassesOf(d, i) == {j \in AttemptsOf(d, i) : d.fix_attempts[j].test_result = "pass"}

\* C5: at most one pass.  A failure has at most one attempt row with verdict
\* pass, and that row has the highest attempt number of the failure's rows
\* and is the last one recorded.
C5_AtMostOnePass ==
  \A i \in DOMAIN db.failures :
     /\ Cardinality(PassesOf(db, i)) <= 1
     /\ \A j \in PassesOf(db, i) : \A m \in AttemptsOf(db, i) \ {j} :
           /\ db.fix_attempts[m].attempt_number < db.fix_attempts[j].attempt_number
           /\ m < j

\* the analysis of invocation p came back with a confidence below 0.3
AnalysedLow(p) ==
  result[p].analysis # NoAnalysis /\ result[p].analysis < ConfidenceGate

\* C6: confidence gate.  An invocation whose analysis has confidence below
\* 0.3 never writes the status reproducing, never gets a workspace (no clone,
\* no sandbox), requests no patch and records no fix attempt.
C6_ConfidenceGate ==
  \A p \in Procs :
     AnalysedLow(p) =>
        /\ "reproducing" \notin wrote[p]
        /\ pc[p] \in {"save_analysis", "catch", "catch_local", "done", "threw"}
        /\ workDir[p] = NoDir
        /\ \A d \in dirs : d[1] # runNo[p]
        /\ requests[p] = 0
        /\ fixAttempts[p] = <<>>
        /\ result[p].fix_attempts = <<>>

\* an invocation has returned through the low-confidence branch
C6_Witness ==
  \E p \in Procs :
     /\ pc[p] = "done"
     /\ AnalysedLow(p)
     /\ result[p].error = LowConfidenceMsg

\* C7: low-confidence escalation.  When an invocation whose analysis has
\* confidence below 0.3 returns, its failure row has status escalated and
\* the error column holds the low-confidence message; the run has no attempt
\* rows and no workspace.
C7_LowConfidenceEscalates ==
  [][\A p \in Procs :
       (Returns(p) /\ pc[p] = "save_analysis" /\ AnalysedLow(p)) =>
          /\ RowIn(db', key[p]).status = "escalated"
          /\ RowIn(db', key[p]).error = LowConfidenceMsg
          /\ db'.fix_attempts = db.fix_attempts
          /\ fixAttempts[p] = <<>>
          /\ \A d \in dirs' : d[1] # runNo[p]]_vars

\* the store rows of invocation p's failure, in the order recorded
RECURSIVE VerdictsOf(_, _, _)
VerdictsOf(d, i, j) ==
  IF j > Len(d.fix_attempts) THEN <<>>
  ELSE IF d.fix_attempts[j].failure_id = i
       THEN <<d.fix_attempts[j].test_result>> \o VerdictsOf(d, i, j + 1)
       ELSE VerdictsOf(d, i, j + 1)

IdIn(d, k) == CHOOSE i \in RowOfKey(d, k) : TRUE

\* C8: fix success outcome.  When an invocation whose fix loop verified a
\* fix returns, its failure row has status fixed and a review-request URL,
\* the failure's attempt rows are fail rows followed by exactly one pass
\* row, and the failure has one generated-test row.
C8_FixSuccessOutcome ==
  [][\A p \in Procs :
       (Returns(p) /\ pc[p] = "save" /\ fixSucceeded[p]) =>
          LET v == VerdictsOf(db', IdIn(db', key[p]), 1)
          IN /\ RowIn(db', key[p]).status = "fixed"
             /\ RowIn(db', key[p]).pr_url # NULL
             /\ Len(v) \in 1..MAX_FIX_ATTEMPTS
             /\ v[Len(v)] = "pass"
             /\ \A j \in 1..(Len(v) - 1) : v[j] = "fail"
             /\ Cardinality(TestsOf(db', IdIn(db', key[p]))) = 1]_vars

AllFailed(as) ==
  /\ Len(as) = MAX_FIX_ATTEMPTS
  /\ \A j \in DOMAIN as : as[j].test_result = "fail"

\* C9: escalation by exhaustion.  When an invocation whose 3 fix attempts
\* all failed returns, its failure row has status escalated, an issue URL
\* and no review-request URL, and the failure has exactly 3 attempt rows,
\* all with verdict fail.
C9_EscalationByExhaustion ==
  [][\A p \in Procs :
       (Returns(p) /\ pc[p] = "save" /\ AllFailed(fixAttempts[p])) =>
          LET v == VerdictsOf(db', IdIn(db', key[p]), 1)
          IN /\ RowIn(db', key[p]).status = "escalated"
             /\ RowIn(db', key[p]).issue_url # NULL
             /\ RowIn(db', key[p]).pr_url = NULL
             /\ Len(v) = MAX_FIX_ATTEMPTS
             /\ \A j \in DOMAIN v : v[j] = "fail"]_vars

\* C10: not reproduced.  When an invocation returns after the test command
\* exited 0 during reproduction, its failure row has status not_reproduced,
\* no patch was requested, no attempt row was written, the workspace is
\* gone, and the row carries no issue or review-request URL.
C10_NotReproduced ==
  [][\A p \in Procs :
       (Returns(p) /\ pc[p] = "set_not_reproduced") =>
          /\ RowIn(db', key[p]).status = "not_reproduced"
          /\ requests[p] = 0
          /\ fixAttempts[p] = <<>>
          /\ db'.fix_attempts = db.fix_attempts
          /\ RepoDir(runNo[p]) \notin dirs'
          /\ RowIn(db', key[p]).pr_url = NULL
          /\ RowIn(db', key[p]).issue_url = NULL]_vars

\* this step is invocation p entering processFailure (createFailure has run)
Ingests(p) == pc[p] \in Ended /\ pc'[p] = "set_fetching_logs"

\* C11: idempotent ingestion.  Every delivery of an event leaves exactly one
\* failures row under its (run_id, repo); a re-delivery keeps that row's id,
\* resets its status to pending, and the pipeline it starts is driven on that
\* same row (the id it writes to is the row's id).
C11_IdempotentIngestion ==
  [][\A p \in Procs :
       Ingests(p) =>
          /\ Cardinality(RowOfKey(db', key'[p])) = 1
          /\ RowOfKey(db, key'[p]) \subseteq RowOfKey(db', key'[p])
          /\ RowIn(db', key'[p]).status = "pending"
          /\ failureId'[p] = IdIn(db', key'[p])]_vars

\* this step is taken by invocation p after its entry
StepOf(p) == pc[p] \notin Ended /\ pc'[p] # pc[p]

\* invocation q ingested the same (run_id, repo) as p while p was in flight
Superseded(p, q) ==
  /\ p # q
  /\ pc[p] \notin Ended
  /\ runNo[q] > runNo[p]
  /\ key[q] = key[p]

\* C12: replay supersedes.  Once a later event for the same (run_id, repo)
\* has been ingested while an earlier pipeline is in flight, no step of the
\* earlier pipeline changes the status of the row.
C12_ReplaySupersedes ==
  [][\A p, q \in Procs :
       (Superseded(p, q) /\ StepOf(p)) =>
          RowIn(db', key[p]).status = RowIn(db, key[p]).status]_vars

\* C13: resource liveness.  When an invocation returns and its row is in a
\* terminal status, no directory made for that run remains (neither the run
\* directory nor the clone beneath it).
C13_ResourceLiveness ==
  [][\A p \in Procs :
       (Returns(p) /\ RowIn(db', key[p]).status \in TerminalStatuses) =>
          \A d \in dirs' : d[1] # runNo[p]]_vars

\* C19: no exception propagates past the pipeline entry point.  No
\* invocation of processFailure ends by throwing, whichever call failed.
C19_NeverThrows ==
  \A p \in Procs : pc[p] # "threw"

\* C22: completion timestamp.  In every state of the store, a failure row
\* has completed_at set only while its status is terminal: a row reset to
\* pending by re-ingestion, or written by updateFailureOutcome with neither
\* URL, carries no completion timestamp while its status is transient.
C22_CompletedOnlyTerminal ==
  \A id \in DOMAIN db.failures :
     db.failures[id].completed_at => db.failures[id].status \in TerminalStatuses

\* the attempt numbers of a failure's stored rows, in insertion order
AttemptNumbersOf(id) ==
  LET rows == SelectSeq(db.fix_attempts, LAMBDA r : r.failure_id = id)
  IN [i \in DOMAIN rows |-> rows[i].attempt_number]

\* C23: attempt numbering.  For every failure, the attempt numbers of its
\* stored rows are 1, 2, ... in the order the rows were appended: contiguous
\* from 1, no duplicates, whatever runs, re-ingestions and synthetic
\* failures came before.
C23_AttemptNumbersContiguous ==
  \A id \in DOMAIN db.failures :
     \A i \in DOMAIN AttemptNumbersOf(id) : AttemptNumbersOf(id)[i] = i

\* C24: generated-test rows.  In every state of the store at most one
\* generated-test row exists per failure, also after the same event is
\* ingested again and a test is generated again.
C24_AtMostOneGeneratedTest ==
  \A id \in DOMAIN db.failures : Cardinality(TestsOf(db, id)) <= 1

\* C27: regression test precedes fixing.  Whenever the fix loop runs the
\* tests to verify a patch, the generated regression test has been inserted
\* into the test suite of the workspace the tests run in, so that a pass
\* verdict implies the generated test passed.
C27_TestPrecedesFixing ==
  \A p \in Procs :
     pc[p] = "await_tests" => InsertedTest(runNo[p]) \in dirs

\* this step is invocation p giving up after an external call failed: the
\* catch block after a rejected log download or LLM call, or the branch
\* taken when reproduceFailure reports a failed clone or container creation
Aborts(p) == Returns(p) /\ pc[p] \in {"catch", "set_failed"}

\* C29: transient external errors.  When the pipeline aborts because the log
\* download, an LLM call, a clone or the container creation failed, it
\* returns at once, leaving its failure row in status failed with the
\* failure's message in the error column.
C29_TransientExternalErrors ==
  [][\A p \in Procs :
       Aborts(p) =>
          /\ RowIn(db', key[p]).status = "failed"
          /\ RowIn(db', key[p]).error = result'[p].error
          /\ result'[p].error \in {ExceptionMsg, ReproFailedMsg}]_vars

\* this step is invocation p failing iteration k = attempt[p] of the fix loop
\* before the last one: readSourceCode or generateFix throws (the response
\* cannot be parsed), applyFix returns false (span missing, patch without
\* effect), or the test run rejects or fails
FailsIteration(p) ==
  /\ attempt[p] < MAX_FIX_ATTEMPTS
  /\ <<pc'[p], attempt'[p], fixAttempts'[p]>> # <<pc[p], attempt[p], fixAttempts[p]>>
  /\ \/ pc[p] = "loop" /\ pc'[p] # "await_fix"
     \/ pc[p] = "await_fix" /\ pc'[p] # "await_tests"
     \/ pc[p] = "await_tests" /\ pc'[p] # "post_loop"

latestAttempt(p) ==
  IF fixAttempts[p] = <<>> THEN <<>> ELSE <<fixAttempts[p][Len(fixAttempts[p])]>>

\* the context of generateFix: previousAttempts: fixAttempts, the array of
\* the invocation's own loop
previousAttempts(p) == fixAttempts[p]

\* buildFixPrompt, section 'Previous Fix Attempts': one entry per element of
\* previousAttempts, in the array's order, with its number and its result
PreviousAttemptsSection(prev) ==
  [i \in 1..Len(prev) |->
     [attempt_number |-> prev[i].attempt_number, test_result |-> prev[i].test_result]]

StoredAttempt(d, k, a) ==
  \E j \in DOMAIN d.fix_attempts :
     /\ d.fix_attempts[j].failure_id \in RowOfKey(d, k)
     /\ d.fix_attempts[j].attempt_number = a.attempt_number
     /\ d.fix_attempts[j].test_result = a.test_result

StoredTest(d, k) ==
  \E j \in DOMAIN d.generated_tests : d.generated_tests[j].failure_id \in RowOfKey(d, k)

\* C33: crash durability of attempts.  Once the fixing stage has begun the
\* generated test is in the store, and while the patch of a further attempt
\* is being requested every attempt completed so far is in the store.
C33_CrashDurability ==
  \A p \in Procs :
     /\ (pc[p] \in {"loop", "await_fix", "await_tests"} /\ result[p].generated_test)
           => StoredTest(db, key[p])
     /\ pc[p] = "await_fix" =>
           \A i \in 1..Len(fixAttempts[p]) : StoredAttempt(db, key[p], fixAttempts[p][i])

\* the await at which each stage issues its first external call:
\* fetchWorkflowLogs, analyzeFailureLogs, reproduceFailure,
\* generateRegressionTest, generateFix (creating_pr issues none)
StageCall ==
  [fetching_logs |-> "await_logs", analyzing |-> "await_analysis",
   reproducing |-> "await_repro", generating_test |-> "await_test_gen",
   fixing |-> "await_fix"]

\* this step issues the first external call of the stage
IssuesFirstCall(p, stage) ==
  /\ pc[p] # StageCall[stage]
  /\ pc'[p] = StageCall[stage]
  /\ stage = "fixing" => attempt[p] = 1

\* C34: persist-before-stage ordering.  When the first external call of a
\* stage is issued, the failure row of the run carries that stage's status.
C34_PersistBeforeStage ==
  [][\A p \in Procs : \A stage \in DOMAIN StageCall :
       IssuesFirstCall(p, stage) =>
          /\ RowOfKey(db', key'[p]) # {}
          /\ RowIn(db', key'[p]).status = stage]_vars

\* C39: row identity of a run.  The failureId an invocation holds after
\* createFailure, and passes to every later write, is the id of the failures
\* row of its own (run_id, repo).
C39_RowIdentity ==
  \A p \in Procs :
     pc[p] \notin Ended => failureId[p] \in RowOfKey(db, key[p])

\* --------------------------------------------------------------- the sandbox
\* One call of reproduceFailure or runTestsInWorkDir (sandbox/runner.ts) with
\* the container it creates and the execs it runs in it (sandbox/docker.ts).
\* Each await is a step; the outcome of a Docker or git call is an input.

\* exit codes exec.inspect() can report; 124 is what coreutils timeout exits with
ExitCodes == {0, 1, 124}

\* the commands a call runs in its container, in order
Execs(fn, hasRequirements, hasSetupPy) ==
  IF fn = "reproduceFailure"
  THEN <<"pip_upgrade", "pytest">>
         \o (IF hasRequirements THEN <<"requirements">> ELSE <<>>)
         \o (IF hasSetupPy THEN <<"editable">> ELSE <<>>)
         \o <<"test">>
  ELSE (IF hasRequirements THEN <<"requirements">> ELSE <<>>)
         \o <<"pytest">>
         \o (IF hasSetupPy THEN <<"editable">> ELSE <<>>)
         \o <<"test">>

\* the promise of an exec not yet resolved: no ExecResult
Unresolved == [exitCode |-> -1, timedOut |-> FALSE]

NewCall(fn, hasRequirements, hasSetupPy) ==
  [pc |-> "ping", fn |-> fn,
   execs |-> Execs(fn, hasRequirements, hasSetupPy),
   docker |-> "none",        \* the container in the daemon: none, created,
                             \* running, exited, removed
   container |-> FALSE,      \* the local `container` is not null
   step |-> 0,               \* index in execs of the exec in progress
   timer |-> "none",         \* timeoutId: none, armed, fired, cleared
   timedOut |-> FALSE,
   killSent |-> FALSE,       \* container.kill was called by this exec's timer
   stream |-> "none",        \* the hijacked stream: none, open, ended, errored
   resolved |-> Unresolved,  \* what the exec's promise resolved with
   thrown |-> FALSE,         \* an exception is on its way out of the try
   removeFailed |-> FALSE]   \* container.remove rejected (logged, swallowed)

ExecResult(exitCode, timedOut) == [exitCode |-> exitCode, timedOut |-> timedOut]

SandboxInit ==
  /\ PipelineInit
  /\ demux = AtRest
  /\ workdirs = AtRest
  /\ janitor = AtRest
  /\ localize = AtRest
  /\ sandbox \in {NewCall(fn, r, s) :
                    fn \in {"reproduceFailure", "runTestsInWorkDir"},
                    r \in BOOLEAN, s \in BOOLEAN}
  /\ patch = AtRest
  /\ webhook = AtRest
  /\ trunc = AtRest

SandboxFrame == UNCHANGED <<pipelineVars, demux, workdirs, janitor, localize, patch, webhook, trunc>>

\* an await inside the try rejects: to the catch (reproduceFailure) and the
\* finally
Throws(sb) == [sb EXCEPT !.pc = "finally", !.thrown = TRUE]

\* checkDockerAvailable: false returns at once, before the try
checkDockerAvailable(available) ==
  /\ sandbox.pc = "ping"
  /\ sandbox' = [sandbox EXCEPT !.pc =
                   IF ~available THEN "returned"
                   ELSE IF sandbox.fn = "reproduceFailure" THEN "clone" ELSE "image"]
  /\ SandboxFrame

\* createWorkDir; await cloneRepo(cloneUrl, sha, repoDir)
cloneRepo(ok) ==
  /\ sandbox.pc = "clone"
  /\ sandbox' = IF ok THEN [sandbox EXCEPT !.pc = "image"] ELSE Throws(sandbox)
  /\ SandboxFrame

\* await ensureImage(PYTHON_IMAGE)
ensureImage(ok) ==
  /\ sandbox.pc = "image"
  /\ sandbox' = IF ok THEN [sandbox EXCEPT !.pc = "create"] ELSE Throws(sandbox)
  /\ SandboxFrame

\* createContainer, first await: client.createContainer(...)
createContainer(ok) ==
  /\ sandbox.pc = "create"
  /\ sandbox' = IF ok THEN [sandbox EXCEPT !.pc = "start", !.docker = "created"]
                ELSE Throws(sandbox)
  /\ SandboxFrame

\* createContainer, second await: container.start(); only when it resolves
\* does createContainer return and the caller's `container` get assigned
startContainer(ok) ==
  /\ sandbox.pc = "start"
  /\ sandbox' = IF ok
                THEN [sandbox EXCEPT !.pc = "exec_create", !.docker = "running",
                                     !.container = TRUE, !.step = 1]
                ELSE Throws(sandbox)
  /\ SandboxFrame

\* execInContainer: await container.exec(...) (the daemon refuses when the
\* container is not running), then setTimeout and exec.start
execCreate(ok) ==
  /\ sandbox.pc = "exec_create"
  /\ ok => sandbox.docker = "running"
  /\ sandbox' = IF ok
                THEN [sandbox EXCEPT !.pc = "exec_start", !.timer = "armed",
                                     !.timedOut = FALSE, !.killSent = FALSE,
                                     !.stream = "none", !.resolved = Unresolved]
                ELSE Throws(sandbox)
  /\ SandboxFrame

\* clearTimeout(timeoutId): no effect on a timer that has fired
clearTimeout(t) == IF t = "armed" THEN "cleared" ELSE t

\* resolve(...) of the exec's promise; a second resolve has no effect
Resolve(sb, r) ==
  [sb EXCEPT !.resolved = IF @ = Unresolved THEN r ELSE @, !.pc = "exec_done"]

\* the callback of exec.start
execStart(ok) ==
  /\ sandbox.pc = "exec_start"
  /\ sandbox' = IF ok
                THEN [sandbox EXCEPT !.pc = "streaming", !.stream = "open"]
                ELSE Resolve([sandbox EXCEPT !.timer = clearTimeout(@)],
                             ExecResult(1, FALSE))
  /\ SandboxFrame

\* the timeout callback: timedOut = true; await container.kill(SIGKILL),
\* whose rejection is swallowed.  A killed container is no longer running.
TimerFires(killOk) ==
  /\ sandbox.pc \in {"exec_start", "streaming"}
  /\ sandbox.timer = "armed"
  /\ sandbox' = [sandbox EXCEPT !.timer = "fired", !.timedOut = TRUE,
                                !.killSent = TRUE,
                                !.docker = IF killOk THEN "exited" ELSE @]
  /\ SandboxFrame

\* dockerStream.on('end')
StreamEnd ==
  /\ sandbox.pc = "streaming"
  /\ sandbox' =
       LET sb == [sandbox EXCEPT !.timer = clearTimeout(@), !.stream = "ended"]
       IN IF sandbox.timedOut THEN Resolve(sb, ExecResult(124, TRUE))
          ELSE [sb EXCEPT !.pc = "inspect"]
  /\ SandboxFrame

\* dockerStream.on('error')
StreamError ==
  /\ sandbox.pc = "streaming"
  /\ sandbox' = Resolve([sandbox EXCEPT !.timer = clearTimeout(@),
                                        !.stream = "errored"],
                        ExecResult(1, FALSE))
  /\ SandboxFrame

\* await exec.inspect(): exitCode = inspectData.ExitCode ?? 1, or 1 when it
\* rejects (code = -1)
Inspect(code) ==
  /\ sandbox.pc = "inspect"
  /\ sandbox' = Resolve(sandbox, ExecResult(IF code = -1 THEN 1 ELSE code, FALSE))
  /\ SandboxFrame

\* the caller's await execInContainer(...) continues: the next command, or
\* the return statement after the test command
ExecReturns ==
  /\ sandbox.pc = "exec_done"
  /\ sandbox' = IF sandbox.step < Len(sandbox.execs)
                THEN [sandbox EXCEPT !.pc = "exec_create", !.step = @ + 1]
                ELSE [sandbox EXCEPT !.pc = "finally"]
  /\ SandboxFrame

\* finally { if (container) await removeContainer(container) }; then the
\* caught error becomes a return value (reproduceFailure) or is rethrown
Finally(removeOk) ==
  /\ sandbox.pc = "finally"
  /\ sandbox' = [sandbox EXCEPT
       !.docker = IF sandbox.container /\ removeOk THEN "removed" ELSE @,
       !.removeFailed = sandbox.container /\ ~removeOk,
       !.pc = IF sandbox.thrown /\ sandbox.fn = "runTestsInWorkDir"
              THEN "threw" ELSE "returned"]
  /\ SandboxFrame

SandboxNext ==
  \/ \E b \in BOOLEAN : checkDockerAvailable(b)
  \/ \E b \in BOOLEAN : cloneRepo(b)
  \/ \E b \in BOOLEAN : ensureImage(b)
  \/ \E b \in BOOLEAN : createContainer(b)
  \/ \E b \in BOOLEAN : startContainer(b)
  \/ \E b \in BOOLEAN : execCreate(b)
  \/ \E b \in BOOLEAN : execStart(b)
  \/ \E b \in BOOLEAN : TimerFires(b)
  \/ StreamEnd
  \/ StreamError
  \/ \E c \in ExitCodes \cup {-1} : Inspect(c)
  \/ ExecReturns
  \/ \E b \in BOOLEAN : Finally(b)

SandboxSpec == SandboxInit /\ [][SandboxNext]_vars

\* the call has returned or thrown
SandboxEnded == sandbox.pc \in {"returned", "threw"}

\* C14: sandbox teardown.  When reproduceFailure or runTestsInWorkDir has
\* returned or thrown, the container it created no longer exists in the
\* daemon (unless the removal itself was attempted and rejected).
C14_SandboxTeardown ==
  SandboxEnded =>
     \/ sandbox.docker \in {"none", "removed"}
     \/ sandbox.removeFailed

\* C16: exec timeout.  A resolved exec whose timer fired while its stream
\* had not ended was sent a kill and resolved with exitCode 124 and
\* timedOut = true; and a result has timedOut = true only for an exec whose
\* timer fired, with exitCode 124.
C16_ExecTimeout ==
  (sandbox.pc = "exec_done") =>
     /\ (sandbox.timer = "fired" /\ sandbox.stream # "none") =>
           /\ sandbox.killSent
           /\ sandbox.resolved = ExecResult(124, TRUE)
     /\ sandbox.resolved.timedOut =>
           /\ sandbox.timer = "fired"
           /\ sandbox.resolved.exitCode = 124

\* const reproduced = testResult.exitCode !== 0, computed only when the await
\* of the test command's exec has resolved
TestExecuted(sb) ==
  /\ sb.step = Len(sb.execs)
  /\ ~sb.thrown
  /\ sb.resolved # Unresolved

\* C31: dependency-install tolerance.  reproduceFailure leaves its try block
\* after the container was started only with the test command executed (the
\* verdict being its exit code # 0), whatever the install steps resolved
\* with; the one exception allowed is the daemon refusing an exec on a
\* container that is still running, which is no outcome of an install step.
C31_InstallTolerance ==
  (sandbox.fn = "reproduceFailure" /\ sandbox.pc = "finally" /\ sandbox.step >= 1) =>
     \/ TestExecuted(sandbox)
     \/ sandbox.thrown /\ sandbox.docker = "running"

\* What the scheduling of an exec guarantees: the daemon answers exec.start
\* and exec.inspect, a timer that is armed and not cleared fires, and the
\* stream of a container that no longer runs ends or errors.  The stream of
\* a running container ends when the command does, which it need not.
SandboxFairness ==
  /\ WF_vars(\E b \in BOOLEAN : execStart(b))
  /\ WF_vars(\E b \in BOOLEAN : TimerFires(b))
  /\ WF_vars((StreamEnd \/ StreamError) /\ sandbox.docker # "running")
  /\ WF_vars(\E c \in ExitCodes \cup {-1} : Inspect(c))

SandboxLiveSpec == SandboxInit /\ [][SandboxNext]_vars /\ SandboxFairness

\* the promise of the exec in progress has been resolved
ExecResolved == sandbox.pc = "exec_done"

\* C40: exec completion.  An exec that was started is eventually resolved;
\* a resolved exec has one result, which nothing replaces before the next
\* exec is created; and its timer is not armed.
C40_ExecCompletion ==
  /\ (sandbox.pc = "exec_start") ~> ExecResolved
  /\ [](ExecResolved => (sandbox.resolved # Unresolved /\ sandbox.timer # "armed"))
  /\ [][(sandbox.resolved # Unresolved /\ sandbox'.resolved # sandbox.resolved)
          => (sandbox'.pc = "exec_start" /\ sandbox'.resolved = Unresolved)]_vars

\* ------------------------------------------------- the output stream's frames
\* The 'data' handler execInContainer installs on the hijacked stream.  The
\* daemon writes frames, an 8-byte header [type, 0, 0, 0, size as a 32-bit
\* big-endian number] and then size bytes of payload; the stream delivers
\* the bytes in chunks of any length.  Bytes are numbers; texts are the
\* sequences of their bytes.

MaxFrames == 2          \* frames written by the daemon
MaxPayload == 2         \* bytes of payload in a frame

\* 1 is stdout, 2 is stderr
StreamTypes == {1, 2}

\* payloads: up to MaxPayload letters "a"
Payloads == {[i \in 1..n |-> 97] : n \in 0..MaxPayload}

Frames == [streamType : StreamTypes, payload : Payloads]

\* the bytes of one frame as the daemon writes them
Header(f) == <<f.streamType, 0, 0, 0, 0, 0, 0, Len(f.payload)>>

RECURSIVE Multiplexed(_)
Multiplexed(fs) ==
  IF fs = <<>> THEN <<>>
  ELSE Header(Head(fs)) \o Head(fs).payload \o Multiplexed(Tail(fs))

\* chunk.readUInt32BE(o), o counted from 0
readUInt32BE(chunk, o) ==
  chunk[o + 1] * 16777216 + chunk[o + 2] * 65536 + chunk[o + 3] * 256 + chunk[o + 4]

\* the body of the handler: the while loop over one chunk, from offset on
RECURSIVE onData(_, _, _)
onData(chunk, offset, acc) ==
  IF offset >= Len(chunk) \/ offset + 8 > Len(chunk) THEN acc
  ELSE LET streamType == chunk[offset + 1]
           size == readUInt32BE(chunk, offset + 4)
           start == offset + 8
       IN IF start + size > Len(chunk) THEN acc
          ELSE LET data == SubSeq(chunk, start + 1, start + size)
               IN onData(chunk, start + size,
                         IF streamType = 1
                         THEN [acc EXCEPT !.stdout = @ \o data]
                         ELSE [acc EXCEPT !.stderr = @ \o data])

\* the payloads of the frames of type t (t = 1) or of every other type
RECURSIVE PayloadsOf(_, _)
PayloadsOf(fs, stdoutWanted) ==
  IF fs = <<>> THEN <<>>
  ELSE (IF (Head(fs).streamType = 1) = stdoutWanted THEN Head(fs).payload ELSE <<>>)
         \o PayloadsOf(Tail(fs), stdoutWanted)

DemuxInit ==
  /\ PipelineInit
  /\ workdirs = AtRest
  /\ janitor = AtRest
  /\ localize = AtRest
  /\ sandbox = AtRest
  /\ patch = AtRest
  /\ webhook = AtRest
  /\ trunc = AtRest
  /\ \E fs \in UNION {[1..n -> Frames] : n \in 0..MaxFrames} :
        demux = [pc |-> "open", frames |-> fs, bytes |-> Multiplexed(fs),
                 delivered |-> 0,     \* bytes of the stream delivered so far
                 chunks |-> 0,        \* 'data' events so far
                 stdout |-> <<>>, stderr |-> <<>>]

DemuxFrame == UNCHANGED <<pipelineVars, workdirs, janitor, localize, sandbox, patch, webhook, trunc>>

\* a 'data' event with the next n bytes of the stream
Data(n) ==
  /\ demux.pc = "open"
  /\ n >= 1
  /\ demux.delivered + n <= Len(demux.bytes)
  /\ LET chunk == SubSeq(demux.bytes, demux.delivered + 1, demux.delivered + n)
         acc == onData(chunk, 0, [stdout |-> demux.stdout, stderr |-> demux.stderr])
     IN demux' = [demux EXCEPT !.delivered = @ + n, !.chunks = @ + 1,
                               !.stdout = acc.stdout, !.stderr = acc.stderr]
  /\ DemuxFrame

\* the 'end' event, after the last byte: stdout and stderr go into the result
End ==
  /\ demux.pc = "open"
  /\ demux.delivered = Len(demux.bytes)
  /\ demux' = [demux EXCEPT !.pc = "ended"]
  /\ DemuxFrame

DemuxNext ==
  \/ \E n \in 1..(MaxFrames * (8 + MaxPayload)) : Data(n)
  \/ End

DemuxSpec == DemuxInit /\ [][DemuxNext]_vars

\* C36: stream demultiplexing.  When the stream has ended, stdout is the
\* concatenation of the payloads of the frames of type 1 and stderr that of
\* the payloads of the other frames, however the bytes were split in chunks.
C36_StreamDemultiplexing ==
  demux.pc = "ended" =>
     /\ demux.stdout = PayloadsOf(demux.frames, TRUE)
     /\ demux.stderr = PayloadsOf(demux.frames, FALSE)

\* ------------------------------------------------------ applyFix / revertFix
\* One source file of the workspace and one ProposedFix.  Texts are sequences
\* of characters.

MaxContent == 3         \* longest file content
MaxCode == 2            \* longest original_code / fixed_code

\* characters of file contents and of original_code; fixed_code, which the
\* model's reply supplies, may also carry the characters "$" and "&"
SourceChars == {"a", "b"}
FixChars == SourceChars \cup {"$", "&"}

\* pat occurs in s at position i
OccursAt(s, pat, i) ==
  /\ i + Len(pat) - 1 <= Len(s)
  /\ SubSeq(s, i, i + Len(pat) - 1) = pat

Occurrences(s, pat) == {i \in 1..(Len(s) + 1) : OccursAt(s, pat, i)}

\* String.prototype.includes
includes(s, pat) == Occurrences(s, pat) # {}

\* String.prototype.replace with a string pattern expands the replacement
\* text: "$$" inserts "$", "$&" inserts the matched text
RECURSIVE Expand(_, _)
Expand(rep, matched) ==
  IF rep = <<>> THEN <<>>
  ELSE IF Len(rep) >= 2 /\ rep[1] = "$" /\ rep[2] = "$"
       THEN <<"$">> \o Expand(SubSeq(rep, 3, Len(rep)), matched)
  ELSE IF Len(rep) >= 2 /\ rep[1] = "$" /\ rep[2] = "&"
       THEN matched \o Expand(SubSeq(rep, 3, Len(rep)), matched)
  ELSE <<Head(rep)>> \o Expand(Tail(rep), matched)

\* content.replace(pat, rep): the first occurrence only
replace(s, pat, rep) ==
  IF ~includes(s, pat) THEN s
  ELSE LET i == CHOOSE j \in Occurrences(s, pat) :
                   \A m \in Occurrences(s, pat) : j <= m
       IN SubSeq(s, 1, i - 1) \o Expand(rep, pat) \o SubSeq(s, i + Len(pat), Len(s))

\* applyFix: the content written, or the content left as it is
applyFix(exists, content, fix) ==
  IF ~exists THEN [ok |-> FALSE, content |-> content]
  ELSE IF ~includes(content, fix.original_code) THEN [ok |-> FALSE, content |-> content]
  ELSE IF replace(content, fix.original_code, fix.fixed_code) = content
       THEN [ok |-> FALSE, content |-> content]
  ELSE [ok |-> TRUE, content |-> replace(content, fix.original_code, fix.fixed_code)]

\* revertFix
revertFix(exists, content, fix) ==
  IF ~exists THEN [ok |-> FALSE, content |-> content]
  ELSE IF ~includes(content, fix.fixed_code) THEN [ok |-> FALSE, content |-> content]
  ELSE [ok |-> TRUE, content |-> replace(content, fix.fixed_code, fix.original_code)]

PatchInit ==
  /\ PipelineInit
  /\ demux = AtRest
  /\ workdirs = AtRest
  /\ janitor = AtRest
  /\ localize = AtRest
  /\ sandbox = AtRest
  /\ webhook = AtRest
  /\ trunc = AtRest
  /\ patch \in {[pc |-> "start", exists |-> e, before |-> c, content |-> c,
                 fix |-> [original_code |-> o, fixed_code |-> f],
                 applied |-> FALSE, reverted |-> FALSE] :
                  e \in BOOLEAN, c \in Strs(SourceChars, MaxContent),
                  o \in Strs(SourceChars, MaxCode), f \in Strs(FixChars, MaxCode)}

PatchFrame == UNCHANGED <<pipelineVars, demux, workdirs, janitor, localize, sandbox, webhook, trunc>>

\* const applied = applyFix(workDir, fix)
ApplyFix ==
  /\ patch.pc = "start"
  /\ LET r == applyFix(patch.exists, patch.content, patch.fix)
     IN patch' = [patch EXCEPT !.pc = IF r.ok THEN "applied" ELSE "rejected",
                               !.applied = r.ok, !.content = r.content]
  /\ PatchFrame

\* revertFix(workDir, fix) after a failed verification
RevertFix ==
  /\ patch.pc = "applied"
  /\ LET r == revertFix(patch.exists, patch.content, patch.fix)
     IN patch' = [patch EXCEPT !.pc = "reverted", !.reverted = r.ok,
                               !.content = r.content]
  /\ PatchFrame

\* await runTestsInWorkDir(workDir) rejects after the patch was applied: the
\* loop's catch block pushes the attempt and the loop goes on; revertFix is
\* not called on this path
RunTestsThrows ==
  /\ patch.pc = "applied"
  /\ patch' = [patch EXCEPT !.pc = "caught"]
  /\ PatchFrame

PatchNext == ApplyFix \/ RevertFix \/ RunTestsThrows

PatchSpec == PatchInit /\ [][PatchNext]_vars

\* C15: apply/revert identity.  When original_code occurs exactly once in
\* the file and applyFix succeeded, revertFix after it leaves the file with
\* the contents it had before applyFix.
C15_ApplyRevertIdentity ==
  (/\ patch.pc = "reverted"
   /\ Cardinality(Occurrences(patch.before, patch.fix.original_code)) = 1)
     => patch.content = patch.before

\* s with its first occurrence of pat replaced by the text rep itself
FirstReplaced(s, pat, rep) ==
  LET i == CHOOSE j \in Occurrences(s, pat) : \A m \in Occurrences(s, pat) : j <= m
  IN SubSeq(s, 1, i - 1) \o rep \o SubSeq(s, i + Len(pat), Len(s))

\* the file is absent, original_code is not in it, or putting fixed_code in
\* the place of its first occurrence would leave the contents as they are
NothingToApply ==
  \/ ~patch.exists
  \/ ~includes(patch.before, patch.fix.original_code)
  \/ FirstReplaced(patch.before, patch.fix.original_code, patch.fix.fixed_code)
        = patch.before

\* C37: patch application preconditions and frame.  In each of the three
\* cases applyFix returns false and the file is as it was; when applyFix
\* returns true the file is its former contents with the first occurrence
\* of original_code replaced by fixed_code and nothing else changed.
C37_ApplyFixFrame ==
  patch.pc \in {"applied", "rejected"} =>
     /\ NothingToApply => (patch.pc = "rejected" /\ patch.content = patch.before)
     /\ patch.pc = "applied" =>
           patch.content = FirstReplaced(patch.before, patch.fix.original_code,
                                         patch.fix.fixed_code)

\* the iteration of the fix loop has ended without a verified fix and the
\* next attempt starts: the patch was not applied, was reverted after a
\* failed verification, or an exception was caught after it was applied
NextAttemptStarts == patch.pc \in {"rejected", "reverted", "caught"}

\* C38: no residue from failed attempts.  When the next fix attempt starts,
\* the file has the contents it had when the iteration began.
C38_NoResidue == NextAttemptStarts => patch.content = patch.before

\* ------------------------------------------------------------ handleWebhook
\* One request in handleWebhook (webhook/handler.ts) with
\* validateGitHubWebhook (webhook/validator.ts).

MaxSig == 4             \* longest x-hub-signature-256 header

Secret == "1"           \* the configured GITHUB_WEBHOOK_SECRET

Actions == {"completed", "requested"}
Conclusions == {"failure", "success"}
Events == {"workflow_run", "push"}

\* the request body as sent: the JSON value and whether its bytes are the
\* ones JSON.stringify would produce for that value
Bodies ==
  [action : Actions, conclusion : Conclusions, compact : BOOLEAN]

\* express.json() followed by JSON.stringify(req.body): the value
\* serialised again, whatever the bytes received were
Reserialized(body) == [body EXCEPT !.compact = TRUE]

\* 'sha256=' + HMAC-SHA-256 in hex, keyed by the secret: a fixed-length text
\* that differs for different texts
Digest(secret, text) ==
  <<"s", IF text.action = "completed" THEN secret ELSE "0",
         IF text.conclusion = "failure" THEN secret ELSE "0",
         IF text.compact THEN secret ELSE "0">>

SigChars == {"s", "0", "1"}

\* crypto.timingSafeEqual: a RangeError for inputs of different byte length
timingSafeEqual(a, b) ==
  [throws |-> Len(a) # Len(b), value |-> a = b]

\* validateGitHubWebhook: false for a missing header, otherwise the
\* comparison with the digest of the re-serialised body
validateGitHubWebhook(signature, body, secret) ==
  IF signature = <<>> THEN [throws |-> FALSE, value |-> FALSE]
  ELSE timingSafeEqual(signature, Digest(secret, Reserialized(body)))

\* the filter without its test of workflow_run.conclusion
IgnoredNoConclusion(event, payload) ==
  IF event # "workflow_run" THEN "Event ignored"
  ELSE IF payload.action # "completed" THEN "Action ignored"
  ELSE NULL

\* the message of the 200 answer to an event that is not processed
Ignored(event, payload) ==
  IF event # "workflow_run" THEN "Event ignored"
  ELSE IF payload.action # "completed" THEN "Action ignored"
  ELSE IF payload.conclusion # "failure" THEN "Conclusion ignored"
  ELSE NULL

WebhookInit ==
  /\ PipelineInit
  /\ demux = AtRest
  /\ workdirs = AtRest
  /\ janitor = AtRest
  /\ localize = AtRest
  /\ sandbox = AtRest
  /\ patch = AtRest
  /\ trunc = AtRest
  /\ webhook \in {[pc |-> "validate", secretSet |-> c, signature |-> g,
                   event |-> e, body |-> b,
                   response |-> NULL,     \* [status, message] once sent
                   sent |-> 0,            \* calls of res.status(..).json(..)
                   pipeline |-> FALSE] :  \* processFailure was called
                    c \in BOOLEAN, g \in Strs(SigChars, MaxSig),
                    e \in Events, b \in Bodies}

WebhookFrame == UNCHANGED <<pipelineVars, demux, workdirs, janitor, localize, sandbox, patch, trunc>>

\* if (webhookSecret && !validateGitHubWebhook(req, webhookSecret)) 401
Validate ==
  /\ webhook.pc = "validate"
  /\ LET v == IF webhook.secretSet
              THEN validateGitHubWebhook(webhook.signature, webhook.body, Secret)
              ELSE [throws |-> FALSE, value |-> TRUE]
     IN webhook' =
          IF v.throws THEN [webhook EXCEPT !.pc = "threw"]
          ELSE IF ~v.value THEN [webhook EXCEPT !.pc = "ended", !.sent = @ + 1,
                             !.response = [status |-> 401, message |-> "Invalid signature"]]
          ELSE [webhook EXCEPT !.pc = "filter"]
  /\ WebhookFrame

\* the event, action and conclusion tests; for an accepted event
\* res.status(202).json(...)
Filter ==
  /\ webhook.pc = "filter"
  /\ LET m == Ignored(webhook.event, webhook.body)
     IN webhook' =
          IF m # NULL
          THEN [webhook EXCEPT !.pc = "ended", !.sent = @ + 1,
                               !.response = [status |-> 200, message |-> m]]
          ELSE [webhook EXCEPT !.pc = "acknowledged", !.sent = @ + 1,
                  !.response = [status |-> 202, message |-> "Processing failure"]]
  /\ WebhookFrame

\* the statement after the acknowledgment: processFailure(payload) is
\* called, creates the failure row and runs to its first await
CallProcessFailure ==
  /\ webhook.pc = "acknowledged"
  /\ webhook' = [webhook EXCEPT !.pc = "process", !.pipeline = TRUE]
  /\ WebhookFrame

\* a handler that answers 500 when the pipeline rejects
ProcessedResponds(ok) ==
  /\ webhook.pc = "process"
  /\ webhook' = IF ok THEN [webhook EXCEPT !.pc = "ended"]
                ELSE [webhook EXCEPT !.pc = "ended", !.sent = @ + 1,
                        !.response = [status |-> 500, message |-> "Processing failed"]]
  /\ WebhookFrame

\* await processFailure(payload) resolves, or rejects into the handler's
\* catch, which logs
Processed(ok) ==
  /\ webhook.pc = "process"
  /\ webhook' = [webhook EXCEPT !.pc = "ended"]
  /\ WebhookFrame

WebhookNext ==
  \/ Validate
  \/ Filter
  \/ CallProcessFailure
  \/ \E ok \in BOOLEAN : Processed(ok)

WebhookSpec == WebhookInit /\ [][WebhookNext]_vars

\* the event is not a completed workflow run that concluded in failure
NotAFailure ==
  webhook.body.action # "completed" \/ webhook.body.conclusion # "failure"

BadSignature ==
  \/ webhook.signature = <<>>
  \/ webhook.signature # Digest(Secret, webhook.body)

\* C18: webhook authenticity.  With a secret configured, a request whose
\* signature header is missing or differs from the digest of its body never
\* reaches processFailure, and the handler does not end without having
\* answered 401.
C18_WebhookAuthenticity ==
  (webhook.secretSet /\ BadSignature) =>
     /\ ~webhook.pipeline
     /\ webhook.pc \in {"validate", "ended"}
     /\ webhook.pc = "ended" => webhook.response.status = 401

\* res.status(202).json({message: 'Processing failure', run_id})
Acknowledgment == [status |-> 202, message |-> "Processing failure"]

\* C35: asynchronous acknowledgment.  When the 202 has been sent
\* processFailure has not been called yet; and from then on, while the
\* pipeline runs and after it has resolved or rejected, the request has
\* exactly one response, the 202.
C35_AsyncAcknowledgment ==
  /\ webhook.pc = "acknowledged" => ~webhook.pipeline
  /\ (webhook.pc \in {"acknowledged", "process"} \/ webhook.pipeline) =>
        /\ webhook.response = Acknowledgment
        /\ webhook.sent = 1

\* an accepted request whose pipeline has ended
C35_Witness ==
  /\ webhook.pc = "ended"
  /\ webhook.pipeline
  /\ webhook.response = Acknowledgment

\* -------------------------------------------------------------- truncateLog
\* One call of truncateLog (github/logs.ts).  A log text is its sequence of
\* lines (content.split('\n')); a line is its length in characters and
\* whether one of importantPatterns matches it.  A text returned is its kind
\* and its length.

MaxLines == 7           \* lines in a log text

\* an empty line, a long line of noise, and the shortest line a pattern matches
LineKinds ==
  {[len |-> 0, important |-> FALSE], [len |-> 60, important |-> FALSE],
   [len |-> 5, important |-> TRUE]}

\* values of maxLength
Budgets == {0, 10, 100}

\* the lines before and after a matching line that are kept with it
ContextBefore == 5
ContextAfter == 10

\* '[Log truncated - showing error-relevant sections]\n\n'
SectionsHeaderLen == 51

RECURSIVE Digits(_)
Digits(n) == IF n < 10 THEN 1 ELSE 1 + Digits(n \div 10)

\* `[Log truncated - showing last ${maxLength} chars]\n\n`
TailHeaderLen(maxLength) == 30 + Digits(maxLength) + 9

RECURSIVE SumLen(_, _)
SumLen(lines, idx) ==
  IF idx = {} THEN 0
  ELSE LET i == CHOOSE j \in idx : TRUE
       IN lines[i].len + SumLen(lines, idx \ {i})

\* the length of the lines of idx joined by '\n'
JoinedLen(lines, idx) ==
  IF idx = {} THEN 0 ELSE SumLen(lines, idx) + Cardinality(idx) - 1

\* content.length
ContentLen(lines) == JoinedLen(lines, DOMAIN lines)

\* importantIndices: every matching line with its context
importantIndices(lines) ==
  {i \in DOMAIN lines :
     \E j \in DOMAIN lines :
        /\ lines[j].important
        /\ j - ContextBefore <= i
        /\ i <= j + ContextAfter}

\* content.slice(-maxLength) of a content longer than maxLength; slice(-0)
\* is slice(0), the whole content
TailLen(lines, maxLength) ==
  IF maxLength = 0 THEN ContentLen(lines) ELSE maxLength

truncateLog(lines, maxLength) ==
  IF ContentLen(lines) <= maxLength
  THEN [kind |-> "input", length |-> ContentLen(lines)]
  ELSE IF JoinedLen(lines, importantIndices(lines)) <= maxLength
  THEN [kind |-> "sections",
        length |-> SectionsHeaderLen + JoinedLen(lines, importantIndices(lines))]
  ELSE [kind |-> "tail",
        length |-> TailHeaderLen(maxLength) + TailLen(lines, maxLength)]

TruncInit ==
  /\ PipelineInit
  /\ demux = AtRest
  /\ workdirs = AtRest
  /\ janitor = AtRest
  /\ localize = AtRest
  /\ sandbox = AtRest
  /\ patch = AtRest
  /\ webhook = AtRest
  /\ trunc \in {[pc |-> "start", lines |-> l, maxLength |-> b, output |-> NULL] :
                  l \in UNION {[1..n -> LineKinds] : n \in 1..MaxLines},
                  b \in Budgets}

\* return truncateLog(content, maxLength)
TruncateLog ==
  /\ trunc.pc = "start"
  /\ trunc' = [trunc EXCEPT !.pc = "done",
                            !.output = truncateLog(trunc.lines, trunc.maxLength)]
  /\ UNCHANGED <<pipelineVars, demux, workdirs, janitor, localize, sandbox, patch, webhook>>

TruncNext == TruncateLog

TruncSpec == TruncInit /\ [][TruncNext]_vars

\* C20: log truncation bound.  The text truncateLog returns is at most
\* maxLength long, and it is the input itself when the input is at most
\* maxLength long.
C20_TruncationBound ==
  trunc.pc = "done" =>
     /\ trunc.output.length <= trunc.maxLength
     /\ ContentLen(trunc.lines) <= trunc.maxLength =>
           trunc.output = [kind |-> "input", length |-> ContentLen(trunc.lines)]

----------------------------------------------------------------------------
\* Log localization (github/logs.ts): one call of findFailingJobLog on the
\* job logs extracted from a run's archive.

MaxJobs == 2
MaxWords == 2

LocalizeInit ==
  /\ PipelineInit
  /\ demux = AtRest
  /\ workdirs = AtRest
  /\ janitor = AtRest
  /\ sandbox = AtRest
  /\ patch = AtRest
  /\ webhook = AtRest
  /\ trunc = AtRest
  /\ localize \in {[pc |-> "start", logs |-> NamedLogs(cs), output |-> NullString] :
                     cs \in UNION {[1..n -> Strs(Words, MaxWords)] : n \in 0..MaxJobs}}

\* return findFailingJobLog(logs)
FindFailingJobLog ==
  /\ localize.pc = "start"
  /\ localize' = [localize EXCEPT !.pc = "done",
                                  !.output = findFailingJobLog(localize.logs)]
  /\ UNCHANGED <<pipelineVars, demux, workdirs, janitor, sandbox, patch, webhook, trunc>>

LocalizeNext == FindFailingJobLog

LocalizeSpec == LocalizeInit /\ [][LocalizeNext]_vars

\* occurrences of the error indicators in a content, each indicator matched
\* as it is written: the first four in any letter case
RECURSIVE IndicatorsFrom(_, _)
IndicatorsFrom(content, i) ==
  IF i > Len(errorPatterns) THEN 0
  ELSE MatchCount(errorPatterns[i], content) + IndicatorsFrom(content, i + 1)

IndicatorScore(content) == IndicatorsFrom(content, 1)

\* C21: log localization.  findFailingJobLog returns null for an empty
\* input; otherwise the text of the log with the highest error-indicator
\* score, the earliest in input order among equals; and when every score is
\* zero, all logs concatenated, each under a header naming its job.
C21_LogLocalization ==
  localize.pc = "done" =>
    LET logs == localize.logs
        score(i) == IndicatorScore(logs[i].content)
    IN IF logs = <<>> THEN localize.output = NullString
       ELSE IF \A i \in DOMAIN logs : score(i) = 0
       THEN localize.output = String(Concatenated(logs))
       ELSE \E i \in DOMAIN logs :
              /\ \A j \in DOMAIN logs : score(j) <= score(i)
              /\ \A j \in 1..(i - 1) : score(j) < score(i)
              /\ localize.output = String(logs[i].content)

----------------------------------------------------------------------------
\* The janitor (sandbox cleanup): one sweep of runCleanup over the containers
\* the Docker daemon lists and the entries of the managed temporary
\* directory.  Whether a Docker or file system call fails is an input.

MaxContainers == 2
MaxEntries == 2

NIGHTWATCH_PREFIX == "nightwatch"
MAX_AGE_MS == 24 * 60 * 60 * 1000

\* the calls of the sweep that failed are kept in failed, as <<call, index>>

\* Date.now() of the sweep, and the cutoff it computes
Now == 1000000000
cutoffTime == Now - MAX_AGE_MS

\* Mounts[].Source of a listed container: a workspace of the pipeline under
\* os.tmpdir()/nightwatch, two host paths outside it, or no mount
MountSources ==
  {"/tmp/nightwatch/run-7-1700000000000/repo", "/home/ci/run-scripts",
   "/srv/nightwatch-data", "/var/lib/db", "none"}

\* Source.includes(needle) for the sources above
SourceIncludes(source, needle) ==
  CASE needle = NIGHTWATCH_PREFIX ->
         source \in {"/tmp/nightwatch/run-7-1700000000000/repo", "/srv/nightwatch-data"}
    [] needle = "run-" ->
         source \in {"/tmp/nightwatch/run-7-1700000000000/repo", "/home/ci/run-scripts"}
    [] OTHER -> FALSE

\* mounts.some(m => m.Source?.includes(NIGHTWATCH_PREFIX) || m.Source?.includes('run-'))
isNightwatch(c) ==
  /\ c.source # "none"
  /\ SourceIncludes(c.source, NIGHTWATCH_PREFIX) \/ SourceIncludes(c.source, "run-")

\* containerInfo.Created, in seconds: a second before the cutoff, at it, after
CreatedTimes == {cutoffTime \div 1000 - 1, cutoffTime \div 1000, cutoffTime \div 1000 + 1}

\* stat.mtimeMs of an entry: a millisecond before the cutoff, at it, after
ModifiedTimes == {cutoffTime - 1, cutoffTime, cutoffTime + 1}

ListedContainers ==
  [source : MountSources, created : CreatedTimes, state : {"present"},
   stopped : {FALSE}, warned : {FALSE}]

\* entries of os.tmpdir()/nightwatch: plain files and directories
BaseDirEntries ==
  [isDirectory : BOOLEAN, mtimeMs : ModifiedTimes, state : {"present"},
   warned : {FALSE}]

JanitorInit ==
  /\ PipelineInit
  /\ demux = AtRest
  /\ workdirs = AtRest
  /\ localize = AtRest
  /\ sandbox = AtRest
  /\ patch = AtRest
  /\ webhook = AtRest
  /\ trunc = AtRest
  /\ janitor \in
       {[pc |-> "start", containers |-> cs, entries |-> es, baseExists |-> b,
         i |-> 1, containersCleaned |-> 0, workDirsCleaned |-> 0,
         errors |-> {}, failed |-> {}] :
          cs \in UNION {[1..n -> ListedContainers] : n \in 0..MaxContainers},
          es \in UNION {[1..n -> BaseDirEntries] : n \in 0..MaxEntries},
          b \in BOOLEAN}
  \* a directory that does not exist has no entries
  /\ ~janitor.baseExists => janitor.entries = <<>>

JanitorFrame == UNCHANGED <<pipelineVars, demux, workdirs, localize, sandbox, patch, webhook, trunc>>

\* where cleanupOldContainers goes after the container at index i - 1
AfterContainer(j, i) == IF i > Len(j.containers) THEN "workdirs" ELSE "containers"

\* cleanupOldContainers: await docker.listContainers({ all: true }); a
\* rejection is caught by the outer try and logged
ListContainers(ok) ==
  /\ janitor.pc = "start"
  /\ janitor' =
       IF ok THEN [janitor EXCEPT !.pc = AfterContainer(janitor, 1)]
       ELSE [janitor EXCEPT !.pc = "workdirs", !.errors = @ \cup {"containers"},
                            !.failed = @ \cup {<<"listContainers", 0>>}]
  /\ JanitorFrame

\* one iteration of the loop over the listed containers: skip what is not
\* recognised or too young; otherwise stop (a rejection is dropped) and
\* remove (a rejection is caught, logged, and the loop goes on)
ContainerIteration(stopOk, removeOk) ==
  /\ janitor.pc = "containers"
  /\ LET i == janitor.i
         c == janitor.containers[i]
         next == [janitor EXCEPT !.i = i + 1, !.pc = AfterContainer(janitor, i + 1)]
         stopped == [next EXCEPT !.containers[i].stopped = stopOk,
                                 !.failed = @ \cup (IF stopOk THEN {} ELSE {<<"stop", i>>})]
     IN janitor' =
          IF ~isNightwatch(c) THEN next
          ELSE IF c.created * 1000 > cutoffTime THEN next
          ELSE IF removeOk
          THEN [stopped EXCEPT !.containers[i].state = "removed",
                               !.containersCleaned = @ + 1]
          ELSE [stopped EXCEPT !.containers[i].warned = TRUE,
                               !.failed = @ \cup {<<"remove", i>>}]
  /\ JanitorFrame

\* what can go wrong with one entry: nothing, statSync throws, rmSync throws
EntryFaults == {"none", "stat", "rm"}

\* the loop of cleanupOldWorkDirs from entry k on: statSync is inside the
\* outer try only, so its exception ends the loop; rmSync has its own try
RECURSIVE ScanEntries(_, _, _)
ScanEntries(j, faults, k) ==
  IF k > Len(j.entries) THEN j
  ELSE LET entry == j.entries[k] IN
       IF faults[k] = "stat"
       THEN [j EXCEPT !.errors = @ \cup {"workdirs"},
                      !.failed = @ \cup {<<"statSync", k>>}]
       ELSE IF ~entry.isDirectory THEN ScanEntries(j, faults, k + 1)
       ELSE IF entry.mtimeMs > cutoffTime THEN ScanEntries(j, faults, k + 1)
       ELSE IF faults[k] = "rm"
       THEN ScanEntries([j EXCEPT !.entries[k].warned = TRUE,
                                  !.failed = @ \cup {<<"rmSync", k>>}], faults, k + 1)
       ELSE ScanEntries([j EXCEPT !.entries[k].state = "removed",
                                  !.workDirsCleaned = @ + 1], faults, k + 1)

\* cleanupOldWorkDirs: nothing without the base directory; a readdirSync
\* that throws is caught by the outer try and logged
cleanupOldWorkDirs(j, readdirOk, faults) ==
  IF ~j.baseExists THEN j
  ELSE IF ~readdirOk
  THEN [j EXCEPT !.errors = @ \cup {"workdirs"},
                 !.failed = @ \cup {<<"readdirSync", 0>>}]
  ELSE ScanEntries(j, faults, 1)

\* runCleanup after cleanupOldContainers resolved: cleanupOldWorkDirs runs
\* synchronously, then runCleanup returns the two counts
CleanupOldWorkDirs(readdirOk, faults) ==
  /\ janitor.pc = "workdirs"
  /\ janitor' = [cleanupOldWorkDirs(janitor, readdirOk, faults) EXCEPT !.pc = "done"]
  /\ JanitorFrame

JanitorNext ==
  \/ \E ok \in BOOLEAN : ListContainers(ok)
  \/ \E stopOk, removeOk \in BOOLEAN : ContainerIteration(stopOk, removeOk)
  \/ \E readdirOk \in BOOLEAN :
       \E faults \in [1..Len(janitor.entries) -> EntryFaults] :
          CleanupOldWorkDirs(readdirOk, faults)

JanitorSpec == JanitorInit /\ [][JanitorNext]_vars

\* the entries one sweep selects for removal
SelectedContainers ==
  {i \in DOMAIN janitor.containers :
     /\ isNightwatch(janitor.containers[i])
     /\ janitor.containers[i].created * 1000 <= cutoffTime}

SelectedEntries ==
  {k \in DOMAIN janitor.entries :
     /\ janitor.entries[k].isDirectory
     /\ janitor.entries[k].mtimeMs <= cutoffTime}

\* C25: janitor error isolation.  A sweep that has returned has removed
\* every container and directory it selects except those whose own stop,
\* inspection or removal failed: a failure on one entry is swallowed and the
\* remaining entries are still processed.  (A failed listing leaves nothing
\* of that kind to process.)
C25_JanitorIsolation ==
  janitor.pc = "done" =>
    /\ <<"listContainers", 0>> \notin janitor.failed =>
          \A i \in SelectedContainers :
             \/ janitor.containers[i].state = "removed"
             \/ <<"remove", i>> \in janitor.failed
    /\ <<"readdirSync", 0>> \notin janitor.failed =>
          \A k \in SelectedEntries :
             \/ janitor.entries[k].state = "removed"
             \/ <<"statSync", k>> \in janitor.failed
             \/ <<"rmSync", k>> \in janitor.failed

\* bound to a workspace under the managed prefix os.tmpdir()/nightwatch
BoundToWorkspace(c) == c.source = "/tmp/nightwatch/run-7-1700000000000/repo"

\* containers and directories a sweep has stopped, tried to remove or removed
TouchedContainers ==
  {i \in DOMAIN janitor.containers :
     LET c == janitor.containers[i]
     IN c.state = "removed" \/ c.stopped \/ c.warned \/ <<"stop", i>> \in janitor.failed}

TouchedEntries ==
  {k \in DOMAIN janitor.entries :
     janitor.entries[k].state = "removed" \/ janitor.entries[k].warned}

\* C26: janitor age threshold.  A sweep touches a container only if it is
\* bound to a workspace under the managed prefix and was created more than
\* 24 h ago, and a directory of the managed prefix only if it was last
\* modified more than 24 h ago; and when no call failed, every such
\* container and directory is removed.
C26_JanitorThreshold ==
  janitor.pc = "done" =>
    /\ \A i \in TouchedContainers :
          /\ BoundToWorkspace(janitor.containers[i])
          /\ Now - janitor.containers[i].created * 1000 > MAX_AGE_MS
    /\ \A k \in TouchedEntries :
          /\ janitor.entries[k].isDirectory
          /\ Now - janitor.entries[k].mtimeMs > MAX_AGE_MS
    /\ janitor.failed = {} =>
          /\ \A i \in DOMAIN janitor.containers :
                (/\ BoundToWorkspace(janitor.containers[i])
                 /\ Now - janitor.containers[i].created * 1000 > MAX_AGE_MS)
                   => janitor.containers[i].state = "removed"
          /\ \A k \in DOMAIN janitor.entries :
                (/\ janitor.entries[k].isDirectory
                 /\ Now - janitor.entries[k].mtimeMs > MAX_AGE_MS)
                   => janitor.entries[k].state = "removed"

----------------------------------------------------------------------------
\* Workspaces (sandbox/runner.ts): the runs in flight in one process, each
\* calling reproduceFailure, which names its workspace after the clock.

MaxConcurrent == 2
MaxClock == 2

Runs == 1..MaxConcurrent

NoWorkDir == <<-1, -1>>

\* path.join(baseDir, `run-${runId}-${Date.now()}`): the two numbers of the name
WorkDirName(runId, now) == <<runId, now>>

\* clock: the system clock in milliseconds; dirs: the run directories
\* present; cloned: those whose repo holds a clone; patchedBy[r]: the runs
\* whose patch is in the clone run r works in
WorkspaceInit ==
  /\ PipelineInit
  /\ demux = AtRest
  /\ janitor = AtRest
  /\ localize = AtRest
  /\ sandbox = AtRest
  /\ patch = AtRest
  /\ webhook = AtRest
  /\ trunc = AtRest
  /\ workdirs = [clock |-> 0,
                 pc |-> [r \in Runs |-> "idle"],
                 workDir |-> [r \in Runs |-> NoWorkDir],
                 dirs |-> {},
                 cloned |-> {},
                 patchedBy |-> [r \in Runs |-> {}]]

WorkspaceFrame ==
  UNCHANGED <<pipelineVars, demux, janitor, localize, sandbox, patch, webhook, trunc>>

\* the system clock advances by a millisecond
Tick ==
  /\ workdirs.clock < MaxClock
  /\ workdirs' = [workdirs EXCEPT !.clock = @ + 1]
  /\ WorkspaceFrame

\* processFailure calls reproduceFailure: await checkDockerAvailable()
CallReproduce(r) ==
  /\ workdirs.pc[r] = "idle"
  /\ workdirs' = [workdirs EXCEPT !.pc[r] = "await_docker"]
  /\ WorkspaceFrame

\* const runId = Date.now(); createWorkDir(runId): the directory is named
\* after two readings of the clock, dt milliseconds apart, and made with
\* mkdirSync(..., { recursive: true }), which accepts an existing directory;
\* then cloneRepo makes repo beneath it and awaits git clone
createWorkDir(r, dt) ==
  /\ workdirs.pc[r] = "await_docker"
  /\ workdirs.clock + dt <= MaxClock
  /\ LET runId == workdirs.clock
         name == WorkDirName(runId, workdirs.clock + dt)
     IN workdirs' = [workdirs EXCEPT !.clock = @ + dt,
                                     !.workDir[r] = name,
                                     !.dirs = @ \cup {name},
                                     !.pc[r] = "await_clone"]
  /\ WorkspaceFrame

\* git clone resolves or rejects; it rejects when repo already holds a clone
Cloned(r, ok) ==
  /\ workdirs.pc[r] = "await_clone"
  /\ LET name == workdirs.workDir[r]
     IN IF ok /\ name \notin workdirs.cloned
        THEN workdirs' = [workdirs EXCEPT !.cloned = @ \cup {name},
                                          !.pc[r] = "ready"]
        ELSE workdirs' = [workdirs EXCEPT !.pc[r] = "done"]
  /\ WorkspaceFrame

\* the runs whose workspace is the directory of run r
SharersOf(r) == {q \in Runs : workdirs.workDir[q] = workdirs.workDir[r]}

\* applyFix writes the patched file into the clone of the workspace
ApplyFixInWorkDir(r) ==
  /\ workdirs.pc[r] = "ready"
  /\ workdirs.workDir[r] \in workdirs.cloned
  /\ workdirs' = [workdirs EXCEPT
        !.patchedBy = [q \in Runs |-> IF q \in SharersOf(r) THEN @[q] \cup {r} ELSE @[q]],
        !.pc[r] = "patched"]
  /\ WorkspaceFrame

\* cleanupWorkDir(workDir): the clone of the workspace is removed
CleanupWorkDir(r) ==
  /\ workdirs.pc[r] \in {"ready", "patched"}
  /\ workdirs' = [workdirs EXCEPT !.cloned = @ \ {workdirs.workDir[r]},
                                  !.pc[r] = "done"]
  /\ WorkspaceFrame

WorkspaceNext ==
  \/ Tick
  \/ \E r \in Runs :
       \/ CallReproduce(r)
       \/ \E dt \in {0, 1} : createWorkDir(r, dt)
       \/ \E ok \in BOOLEAN : Cloned(r, ok)
       \/ ApplyFixInWorkDir(r)
       \/ CleanupWorkDir(r)

WorkspaceSpec == WorkspaceInit /\ [][WorkspaceNext]_vars

\* runs that hold a workspace: created and not yet finished
HoldsWorkDir(r) == workdirs.pc[r] \in {"await_clone", "ready", "patched"}

\* C28: workspaces are never shared.  Two runs in flight at the same time,
\* also when started in the same clock millisecond, hold distinct workspace
\* directories from createWorkDir.
C28_WorkspacesDistinct ==
  \A r1, r2 \in Runs :
     (r1 # r2 /\ HoldsWorkDir(r1) /\ HoldsWorkDir(r2)) =>
        workdirs.workDir[r1] # workdirs.workDir[r2]
====
